---- MODULE Spec2Model ----
(***************************************************************************)
(* The Snowflake MCP server:                                               *)
(*   server.py    handle_call_tool under handle_tool_errors, the tool      *)
(*                handlers, handle_read_query -> write_detector            *)
(*   db_client.py SnowflakeDB.execute_query (first-keyword safety check,   *)
(*                init-task wait, session (re)initialisation, session.sql) *)
(*                and the insight memo (add_insight, get_memo)             *)
(*   claude_code.py the codebase-query handlers: response cache, external  *)
(*                command, extraction of the answer between the markers    *)
(* SQL text is modelled as a sequence of one-character strings so that     *)
(* strip / upper / split act on characters as the Python methods do.       *)
(* Spec and SpecCalls follow one call at a time on the query path;         *)
(* SpecTools follows tool calls one after the other through the dispatch,  *)
(* SpecAsync calls that are in flight together, SpecCodebase the calls of  *)
(* the codebase-query handlers, SpecMemo the calls on the insight memo.    *)
(***************************************************************************)
EXTENDS Integers, Sequences, FiniteSets, TLC

\* ------------------------------------------------------------------ bounds
MaxStmts == 2
MaxCalls == 2
MaxTicks == 1
MaxToolCalls == 2
MaxInFlight == 2

\* calls of the codebase-query handlers and of find_cached_response in a run
MaxQueries == 1

\* calls that add to the memo or read it in a run
MaxMemoCalls == 3

\* ------------------------------------------------------ characters, strings
Lowers == <<"a","b","c","d","e","f","g","h","i","j","k","l","m",
            "n","o","p","q","r","s","t","u","v","w","x","y","z">>
Uppers == <<"A","B","C","D","E","F","G","H","I","J","K","L","M",
            "N","O","P","Q","R","S","T","U","V","W","X","Y","Z">>

\* str.isspace for the characters of the model
Whitespace == {" ", "\n", "\t"}

Letters == {Lowers[i] : i \in 1..26} \cup {Uppers[i] : i \in 1..26}

\* the upper-case and lower-case form of each letter
UpperOf == [c \in Letters |-> IF \E i \in 1..26 : Lowers[i] = c
                              THEN Uppers[CHOOSE i \in 1..26 : Lowers[i] = c] ELSE c]
LowerOf == [c \in Letters |-> IF \E i \in 1..26 : Uppers[i] = c
                              THEN Lowers[CHOOSE i \in 1..26 : Uppers[i] = c] ELSE c]

UpperChar(c) == IF c \in Letters THEN UpperOf[c] ELSE c

LowerChar(c) == IF c \in Letters THEN LowerOf[c] ELSE c

\* str.upper()
upper(s) == [i \in 1..Len(s) |-> UpperChar(s[i])]

\* str.lower()
lower(s) == [i \in 1..Len(s) |-> LowerChar(s[i])]

\* index of the first character at or after i that is not whitespace
RECURSIVE skipSpace(_, _)
skipSpace(s, i) ==
    IF i > Len(s) THEN i
    ELSE IF s[i] \in Whitespace THEN skipSpace(s, i + 1) ELSE i

\* index of the last character at or before i that is not whitespace
RECURSIVE skipSpaceBack(_, _)
skipSpaceBack(s, i) ==
    IF i < 1 THEN i
    ELSE IF s[i] \in Whitespace THEN skipSpaceBack(s, i - 1) ELSE i

\* index of the first whitespace character at or after i
RECURSIVE wordEnd(_, _)
wordEnd(s, i) ==
    IF i > Len(s) THEN i
    ELSE IF s[i] \in Whitespace THEN i ELSE wordEnd(s, i + 1)

\* str.strip()
strip(s) == SubSeq(s, skipSpace(s, 1), skipSpaceBack(s, Len(s)))

\* str.split() with no separator: maximal runs of non-whitespace, no empty words
RECURSIVE splitFrom(_, _)
splitFrom(s, i) ==
    LET b == skipSpace(s, i)
        e == wordEnd(s, b)
    IN IF b > Len(s) THEN <<>>
       ELSE <<SubSeq(s, b, e - 1)>> \o splitFrom(s, e)

split(s) == splitFrom(s, 1)

\* ------------------------------------------------------------ SQL keywords
kwINSERT   == <<"I","N","S","E","R","T">>
kwUPDATE   == <<"U","P","D","A","T","E">>
kwDELETE   == <<"D","E","L","E","T","E">>
kwCREATE   == <<"C","R","E","A","T","E">>
kwDROP     == <<"D","R","O","P">>
kwALTER    == <<"A","L","T","E","R">>
kwTRUNCATE == <<"T","R","U","N","C","A","T","E">>
kwMERGE    == <<"M","E","R","G","E">>
kwGRANT    == <<"G","R","A","N","T">>
kwREVOKE   == <<"R","E","V","O","K","E">>
kwCALL     == <<"C","A","L","L">>
kwSELECT   == <<"S","E","L","E","C","T">>
kwWITH     == <<"W","I","T","H">>
kwAS       == <<"A","S">>
kwSHOW     == <<"S","H","O","W">>

\* db_client.py: write_keywords of execute_query
write_keywords ==
    {kwINSERT, kwUPDATE, kwDELETE, kwCREATE, kwDROP, kwALTER, kwTRUNCATE, kwMERGE}

\* ------------------------------------------- db_client.py: execute_query
\* marker for the IndexError that list[0] raises on an empty list
IndexError == <<"IndexError">>

\* list[0]
index0(list) == IF list = <<>> THEN IndexError ELSE list[1]

\* query_upper without the case folding: query.strip()
query_upper_noUpper(query) == strip(query)

\* query_upper without the stripping: query.upper()
query_upper_noStrip(query) == upper(query)

\* query_upper = query.strip().upper()
query_upper(query) == upper(strip(query))

\* first_word without the guard on the empty text: query_upper.split()[0]
first_word_noGuard(query) == index0(split(query_upper(query)))

\* first_word = query_upper.split()[0] if query_upper else ''
first_word(query) ==
    IF query_upper(query) # <<>> THEN index0(split(query_upper(query))) ELSE <<>>

\* k occurs in s at position i
OccursAt(s, k, i) == i + Len(k) - 1 <= Len(s) /\ SubSeq(s, i, i + Len(k) - 1) = k

\* the safety check looking for a keyword anywhere in the text:
\* any(k in query_upper for k in write_keywords)
safety_check_anywhere(query) ==
    LET u == query_upper(query)
        found == {k \in write_keywords : \E i \in 1..Len(u) : OccursAt(u, k, i)}
    IN IF found # {}
       THEN [raised |-> "ValueError", keyword |-> CHOOSE k \in found : TRUE]
       ELSE [raised |-> "none", keyword |-> <<>>]

\* the SAFETY CHECK of execute_query: the exception it raises, or "none"
safety_check(query) ==
    LET fw == first_word(query) IN
    IF fw = IndexError THEN [raised |-> "IndexError", keyword |-> <<>>]
    ELSE IF fw \in write_keywords THEN [raised |-> "ValueError", keyword |-> fw]
    ELSE [raised |-> "none", keyword |-> <<>>]

\* --------------------------- write_detector: SQLWriteDetector.analyze_query
\* the canonical mutating keyword set of the detector's contract
mutating_keywords ==
    {kwINSERT, kwUPDATE, kwDELETE, kwCREATE, kwDROP, kwALTER, kwTRUNCATE,
     kwMERGE, kwGRANT, kwREVOKE, kwCALL}

WordChars == Letters \cup {"0","1","2","3","4","5","6","7","8","9","_"}

\* index of the first c in s[lo..hi], hi + 1 when there is none
RECURSIVE findChar(_, _, _, _)
findChar(s, c, lo, hi) ==
    IF lo > hi THEN hi + 1
    ELSE IF lo = hi THEN (IF s[lo] = c THEN lo ELSE hi + 1)
    ELSE LET mid == (lo + hi) \div 2
             left == findChar(s, c, lo, mid)
         IN IF left <= mid THEN left ELSE findChar(s, c, mid + 1, hi)

\* end (exclusive) of the statement that starts at i: the next ';' or the end
statementEnd(s, i) == IF i > Len(s) THEN i ELSE findChar(s, ";", i, Len(s))

\* statements separated by ';'
RECURSIVE splitStatements(_, _)
splitStatements(s, i) ==
    LET e == statementEnd(s, i) IN
    IF e > Len(s) THEN <<SubSeq(s, i, Len(s))>>
    ELSE <<SubSeq(s, i, e - 1)>> \o splitStatements(s, e + 1)

At(s, i, a, b) == i + 1 <= Len(s) /\ s[i] = a /\ s[i + 1] = b

\* index after a '--' comment whose text starts at i: after the newline
RECURSIVE afterLineComment(_, _)
afterLineComment(s, i) ==
    IF i > Len(s) THEN i
    ELSE IF s[i] = "\n" THEN i + 1 ELSE afterLineComment(s, i + 1)

\* index after a block comment whose text starts at i; an unterminated
\* comment runs to the end
RECURSIVE afterBlockComment(_, _)
afterBlockComment(s, i) ==
    IF i > Len(s) THEN i
    ELSE IF At(s, i, "*", "/") THEN i + 2 ELSE afterBlockComment(s, i + 1)

\* index of the first character at or after i that is past the leading
\* whitespace, comments and opening parentheses
RECURSIVE stripLeading(_, _)
stripLeading(s, i) ==
    IF i > Len(s) THEN i
    ELSE IF s[i] \in Whitespace \/ s[i] = "(" THEN stripLeading(s, i + 1)
    ELSE IF At(s, i, "-", "-") THEN stripLeading(s, afterLineComment(s, i + 2))
    ELSE IF At(s, i, "/", "*") THEN stripLeading(s, afterBlockComment(s, i + 2))
    ELSE i

\* nothing but whitespace: there is no statement
IsBlank(s) == skipSpace(s, 1) > Len(s)

\* end (exclusive) of the word that starts at i
RECURSIVE tokenEnd(_, _)
tokenEnd(s, i) ==
    IF i > Len(s) THEN i
    ELSE IF s[i] \in WordChars THEN tokenEnd(s, i + 1) ELSE i

\* the case-folded word at i
tokenAt(s, i) == upper(SubSeq(s, i, tokenEnd(s, i) - 1))

\* the verb that follows the CTE definitions of a WITH statement: the first
\* top-level token after a closing parenthesis that is neither AS nor
\* preceded by a comma; <<>> when there is none
RECURSIVE cteTail(_, _, _)
cteTail(s, i, depth) ==
    IF i > Len(s) THEN <<>>
    ELSE IF s[i] = "(" THEN cteTail(s, i + 1, depth + 1)
    ELSE IF s[i] = ")" THEN
        IF depth = 1
        THEN LET r == stripLeading(s, i + 1)
                 tok == tokenAt(s, r)
             IN IF r <= Len(s) /\ s[r] = "," THEN cteTail(s, r + 1, 0)
                ELSE IF tok = kwAS THEN cteTail(s, r, 0)
                ELSE tok
        ELSE cteTail(s, i + 1, IF depth > 0 THEN depth - 1 ELSE 0)
    ELSE cteTail(s, i + 1, depth)

Read(type) == [write |-> FALSE, keyword |-> <<>>, type |-> type]
Write(kw, type) == [write |-> TRUE, keyword |-> kw, type |-> type]

\* classification of one statement
classifyStatement(seg) ==
    LET r == stripLeading(seg, 1)
        tok == tokenAt(seg, r)
        tail == cteTail(seg, r, 0)
    IN IF IsBlank(seg) THEN Read("EMPTY")
       ELSE IF r > Len(seg) THEN Write(<<>>, "AMBIGUOUS")
       ELSE IF tok \in mutating_keywords THEN Write(tok, "WRITE")
       ELSE IF tok = kwSELECT THEN Read("READ")
       ELSE IF tok = kwWITH THEN
            IF tail = kwSELECT THEN Read("READ")
            ELSE IF tail \in mutating_keywords THEN Write(tail, "WRITE")
            ELSE Write(<<>>, "AMBIGUOUS")
       ELSE Write(<<>>, "AMBIGUOUS")

\* keyword of the first statement classified as a write, <<>> when none is
RECURSIVE firstWrite(_, _)
firstWrite(segs, i) ==
    IF i > Len(segs) THEN [write |-> FALSE, keyword |-> <<>>]
    ELSE LET c == classifyStatement(segs[i]) IN
         IF c.write THEN [write |-> TRUE, keyword |-> c.keyword]
         ELSE firstWrite(segs, i + 1)

\* classify(sqlText) -> DetectionResult
analyze_query(sql) ==
    LET w == firstWrite(splitStatements(sql, 1), 1) IN
    [contains_write |-> w.write, matched_keyword |-> w.keyword,
     statement_type |-> IF w.write THEN "WRITE" ELSE "READ"]

\* ------------------------------------------------- inputs: arguments["query"]
\* text that may precede the first statement: nothing, whitespace, a line
\* comment, a block comment
BlankLead == <<" ","\n","\t">>
LineCommentLead == <<"-","-"," ","c","\n">>
BlockCommentLead == <<"/","*"," ","c"," ","*","/"," ">>
Leads == { <<>>, BlankLead, LineCommentLead, BlockCommentLead }

cteA == kwWITH \o <<" ","A"," ">> \o kwAS \o <<" ","(">> \o kwSELECT \o <<" ","1",")"," ">>

\* statements led by a mutating verb: "DROP T", ...
WriteStatements == { kw \o <<" ","T">> : kw \in mutating_keywords }

\* SELECT statements and WITH ... SELECT statements
ReadStatements ==
    { kwSELECT \o <<" ","1">>,
      kwSELECT \o <<" ">> \o kwUPDATE \o <<"D">>,
      <<"(">> \o kwSELECT \o <<" ","1",")">>,
      cteA \o kwSELECT \o <<" ","1">> }

\* WITH ... <DML verb> statements
CteWriteStatements ==
    { cteA \o kwINSERT \o <<" ","T">>, cteA \o kwDELETE \o <<" ","T">> }

\* statements that are neither: a comment alone, an unrecognised verb
CommentOnly == <<"-","-"," ","c">>
Unrecognised == kwSHOW \o <<" ","T">>
AmbiguousStatements == { CommentOnly, Unrecognised }

FirstStatements ==
    WriteStatements \cup ReadStatements \cup CteWriteStatements
        \cup AmbiguousStatements \cup { <<>> }

\* statements that may follow a ';'
NextStatements ==
    { <<>>, kwSELECT \o <<" ","1">>, kwDROP \o <<" ","T">>, CommentOnly }

CaseModes == {"upper", "lower", "mixed"}

SeqsUpTo(S, n) == UNION { [1..k -> S] : k \in 0..n }

Shapes ==
    [ lead : Leads,
      first : FirstStatements,
      rest : SeqsUpTo(NextStatements, MaxStmts - 1),
      case : CaseModes ]

NoShape == [lead |-> <<>>, first |-> <<>>, rest |-> <<>>, case |-> "upper"]

RECURSIVE Flatten(_)
Flatten(ss) == IF ss = <<>> THEN <<>> ELSE Head(ss) \o Flatten(Tail(ss))

mixed(s) ==
    [i \in 1..Len(s) |-> IF i % 2 = 1 THEN UpperChar(s[i]) ELSE LowerChar(s[i])]

ApplyCase(mode, s) ==
    IF mode = "lower" THEN lower(s) ELSE IF mode = "mixed" THEN mixed(s) ELSE s

\* the text of a shape: lead, first statement, then "; " + statement for each
\* further statement
Render(sh) ==
    ApplyCase(sh.case,
        sh.lead \o sh.first
            \o Flatten([i \in 1..Len(sh.rest) |-> <<";"," ">> \o sh.rest[i]]))

\* ---------------------------------------------------------------- the state
VARIABLES
    shape,        \* how the query text of the call was built
    entry,        \* what was called: the "read_query" tool or db.execute_query
    arguments,    \* arguments of the call: whether a query is given, and its text
    pc,           \* position of the call: "idle", "called", "await_init_task", "done"
    result,       \* what the call returned or raised
    session,      \* SnowflakeDB.session: "None" or "live"
    auth_time,    \* SnowflakeDB.auth_time
    init_task,    \* SnowflakeDB.init_task: "pending", "done", "failed"
    insights,     \* SnowflakeDB.insights
    now,          \* time.time()
    sql_calls,    \* the texts passed to session.sql by execute_query, in order
    verdicts,     \* history: what each classification so far decided, per text
    calls,        \* number of calls made so far
    ticks,        \* number of clock steps so far
    inits,        \* history: number of runs of _init_database so far
    allow_write,  \* main's parameter allow_write
    exclude_tools,\* main's parameter exclude_tools
    response,     \* what handle_call_tool returned, per call
    commands,     \* history: the calls of subprocess.run and their machines
    lookups,      \* history: the calls of find_cached_response
    contents      \* the texts a codebase handler or a reading of the memo returned

vars == <<shape, entry, arguments, pc, result, session, auth_time, init_task,
          insights, now, sql_calls, verdicts, calls, ticks, inits, allow_write,
          exclude_tools, response, commands, lookups, contents>>

\* what only the codebase-query handlers of claude_code.py touch
codebase_vars == <<commands, lookups, contents>>

\* the server's parameters and its answers: untouched by a call made on the
\* SnowflakeDB object or on handle_read_query itself
server_vars == <<allow_write, exclude_tools, response>>

\* db_client.py: SnowflakeDB.AUTH_EXPIRATION_TIME
AUTH_EXPIRATION_TIME == 1800

NoResult == [kind |-> "none", error |-> "", keyword |-> <<>>]
Returned == [kind |-> "data", error |-> "", keyword |-> <<>>]
Raised(e, kw) == [kind |-> "raised", error |-> e, keyword |-> kw]

\* SnowflakeDB.__init__ followed by db.start_init_connection() in main, and
\* one call: the read_query tool with a query text of any shape or with no
\* query argument, or db.execute_query with a query text of any shape
Init ==
    /\ \/ /\ shape \in Shapes
          /\ entry \in {"read_query", "execute_query"}
          /\ arguments = [present |-> TRUE, query |-> Render(shape)]
       \/ /\ shape = NoShape
          /\ entry = "read_query"
          /\ arguments = [present |-> FALSE, query |-> <<>>]
    /\ pc = "called"
    /\ result = NoResult
    /\ session = "None"
    /\ auth_time = 0
    /\ init_task = "pending"
    /\ insights = <<>>
    /\ commands = <<>>
    /\ lookups = {}
    /\ contents = <<>>
    /\ now = AUTH_EXPIRATION_TIME + 1
    /\ sql_calls = <<>>
    /\ verdicts = {}
    /\ calls = 1
    /\ ticks = 0
    /\ inits = 0
    /\ allow_write = FALSE
    /\ exclude_tools = {}
    /\ response = <<>>

\* how a run of _init_database can end: at its end (line 73), in
\* Session...create() (line 53), or in the USE WAREHOUSE call (line 70) after
\* self.session was assigned
InitOutcomes == {"ok", "no_session", "no_warehouse"}

\* _init_database: the object's fields after a run that ends as o, and whether
\* the run raised its ValueError
init_database(o) ==
    [ session |-> IF o = "no_session" THEN session ELSE "live",
      auth_time |-> IF o = "ok" THEN now ELSE auth_time,
      raised |-> o # "ok" ]

\* the background task of start_init_connection runs _init_database
InitTaskRun(o) ==
    /\ init_task = "pending"
    /\ session' = init_database(o).session
    /\ auth_time' = init_database(o).auth_time
    /\ init_task' = IF init_database(o).raised THEN "failed" ELSE "done"
    /\ inits' = inits + 1
    /\ UNCHANGED <<shape, entry, arguments, pc, result, insights, codebase_vars, now, sql_calls,
                   verdicts, calls, ticks, server_vars>>

\* an end of execute_query or the suspension at "await self.init_task": the
\* position and result of the call, the object's fields, whether session.sql
\* was invoked on the query, and what the safety check decided
Effect(p, r, s, a, n, ran, v) ==
    [pc |-> p, result |-> r, session |-> s, auth_time |-> a, inits |-> n,
     ran |-> ran, verdict |-> v]

\* result = self.session.sql(query).to_pandas() ...: returns or re-raises
run_sql(s, a, n) ==
    { Effect("done", r, s, a, n, TRUE, NoResult) :
        r \in {Returned, Raised("DatabaseError", <<>>)} }

\* lines 94-111 of execute_query without the wait for a pending init task
connect_and_run_noWait ==
    IF session = "None" \/ now - auth_time > AUTH_EXPIRATION_TIME
    THEN UNION { IF init_database(o).raised
                 THEN { Effect("done", Raised("ConnectError", <<>>),
                               init_database(o).session, init_database(o).auth_time,
                               inits + 1, FALSE, NoResult) }
                 ELSE run_sql(init_database(o).session, init_database(o).auth_time,
                              inits + 1)
               : o \in InitOutcomes }
    ELSE run_sql(session, auth_time, inits)

\* lines 94-111 of execute_query without the test of the session's age
connect_and_run_noExpiry ==
    IF init_task = "pending"
    THEN { Effect("await_init_task", NoResult, session, auth_time, inits, FALSE, NoResult) }
    ELSE IF session = "None"
    THEN UNION { IF init_database(o).raised
                 THEN { Effect("done", Raised("ConnectError", <<>>),
                               init_database(o).session, init_database(o).auth_time,
                               inits + 1, FALSE, NoResult) }
                 ELSE run_sql(init_database(o).session, init_database(o).auth_time,
                              inits + 1)
               : o \in InitOutcomes }
    ELSE run_sql(session, auth_time, inits)

\* lines 94-111 of execute_query awaiting the init task whenever there is one,
\* done or not: the exception of a failed task is raised again on every call
connect_and_run_awaitAlways ==
    IF init_task = "pending"
    THEN { Effect("await_init_task", NoResult, session, auth_time, inits, FALSE, NoResult) }
    ELSE IF init_task = "failed"
    THEN { Effect("done", Raised("ConnectError", <<>>), session, auth_time, inits,
                  FALSE, NoResult) }
    ELSE run_sql(session, auth_time, inits)

\* lines 94-111 of execute_query, from the test of init_task on
connect_and_run ==
    IF init_task = "pending"
    THEN { Effect("await_init_task", NoResult, session, auth_time, inits, FALSE, NoResult) }
    ELSE IF session = "None" \/ now - auth_time > AUTH_EXPIRATION_TIME
    THEN UNION { IF init_database(o).raised
                 THEN { Effect("done", Raised("ConnectError", <<>>),
                               init_database(o).session, init_database(o).auth_time,
                               inits + 1, FALSE, NoResult) }
                 ELSE run_sql(init_database(o).session, init_database(o).auth_time,
                              inits + 1)
               : o \in InitOutcomes }
    ELSE run_sql(session, auth_time, inits)

\* an end of execute_query at its safety check
refused(check) ==
    { Effect("done", Raised(check.raised, check.keyword), session, auth_time, inits,
             FALSE, Raised(check.raised, check.keyword)) }

\* execute_query with the safety check applied only once a session exists
execute_query_checkWhenConnected(query) ==
    LET check == IF session = "None" THEN [raised |-> "none", keyword |-> <<>>]
                 ELSE safety_check(query) IN
    IF check.raised # "none" THEN refused(check) ELSE connect_and_run

\* execute_query from its start up to its first suspension or its end
execute_query(query) ==
    LET check == safety_check(query) IN
    IF check.raised # "none" THEN refused(check) ELSE connect_and_run

\* execute_query from "await self.init_task" on, once the task is done
after_init_task ==
    IF init_task = "failed"
    THEN { Effect("done", Raised("ConnectError", <<>>), session, auth_time, inits,
                  FALSE, NoResult) }
    ELSE run_sql(session, auth_time, inits)

\* the classification of this call's text is added to the history
Decided(v) ==
    verdicts' = verdicts \cup {[entry |-> entry, query |-> arguments.query, verdict |-> v]}

\* the call ends or is suspended as e says
Proceed(e) ==
    /\ pc' = e.pc
    /\ result' = e.result
    /\ session' = e.session
    /\ auth_time' = e.auth_time
    /\ inits' = e.inits
    /\ sql_calls' = IF e.ran THEN Append(sql_calls, arguments.query) ELSE sql_calls

\* the call ends in the handler, before execute_query
Raise(error) ==
    /\ pc' = "done"
    /\ result' = Raised(error, <<>>)
    /\ UNCHANGED <<session, auth_time, inits, sql_calls>>

\* handle_read_query without the detector's verdict: the query goes straight
\* to execute_query
handle_read_query_noDetector ==
    /\ pc = "called"
    /\ entry = "read_query"
    /\ IF ~arguments.present
       THEN Raise("MissingQuery") /\ UNCHANGED verdicts
       ELSE \E e \in execute_query(arguments.query) : Proceed(e) /\ Decided(e.verdict)
    /\ UNCHANGED <<shape, entry, arguments, init_task, insights, codebase_vars, now, calls, ticks,
                   server_vars>>

\* handle_read_query from the call up to its first suspension or its end
handle_read_query ==
    /\ pc = "called"
    /\ entry = "read_query"
    /\ IF ~arguments.present
       THEN Raise("MissingQuery") /\ UNCHANGED verdicts
       ELSE IF analyze_query(arguments.query).contains_write
       THEN Raise("ContainsWrite") /\ Decided(Raised("ContainsWrite", <<>>))
       ELSE \E e \in execute_query(arguments.query) : Proceed(e) /\ Decided(e.verdict)
    /\ UNCHANGED <<shape, entry, arguments, init_task, insights, codebase_vars, now, calls, ticks,
                   server_vars>>

\* db.execute_query(query) called on the SnowflakeDB object itself
call_execute_query ==
    /\ pc = "called"
    /\ entry = "execute_query"
    /\ \E e \in execute_query(arguments.query) : Proceed(e) /\ Decided(e.verdict)
    /\ UNCHANGED <<shape, entry, arguments, init_task, insights, codebase_vars, now, calls, ticks,
                   server_vars>>

\* execute_query resumes from "await self.init_task" once the task is done
ResumeAfterInit ==
    /\ pc = "await_init_task"
    /\ init_task # "pending"
    /\ \E e \in after_init_task : Proceed(e)
    /\ UNCHANGED <<shape, entry, arguments, init_task, insights, codebase_vars, now, verdicts,
                   calls, ticks, server_vars>>

Next ==
    \/ \E o \in InitOutcomes : InitTaskRun(o)
    \/ handle_read_query
    \/ call_execute_query
    \/ ResumeAfterInit

Spec == Init /\ [][Next]_vars

\* ------------------------------------------------ several calls in sequence
\* the query texts of the calls of a sequence
CallShapes ==
    { [lead |-> <<>>, first |-> kwDROP \o <<" ","T">>, rest |-> <<>>, case |-> "upper"],
      [lead |-> BlankLead, first |-> kwGRANT \o <<" ","T">>, rest |-> <<>>, case |-> "lower"],
      [lead |-> <<>>, first |-> kwSELECT \o <<" ","1">>, rest |-> <<>>, case |-> "mixed"],
      [lead |-> <<>>, first |-> kwSELECT \o <<" ","1">>,
       rest |-> << kwDROP \o <<" ","T">> >>, case |-> "upper"] }

\* SnowflakeDB.__init__ followed by db.start_init_connection() in main; no
\* call has been made
InitCalls ==
    /\ shape = NoShape
    /\ entry = "none"
    /\ arguments = [present |-> FALSE, query |-> <<>>]
    /\ pc = "idle"
    /\ result = NoResult
    /\ session = "None"
    /\ auth_time = 0
    /\ init_task = "pending"
    /\ insights = <<>>
    /\ commands = <<>>
    /\ lookups = {}
    /\ contents = <<>>
    /\ now = AUTH_EXPIRATION_TIME + 1
    /\ sql_calls = <<>>
    /\ verdicts = {}
    /\ calls = 0
    /\ ticks = 0
    /\ inits = 0
    /\ allow_write = FALSE
    /\ exclude_tools = {}
    /\ response = <<>>

\* the next call arrives once the previous one has ended
Call(e, sh) ==
    /\ pc \in {"idle", "done"}
    /\ calls < MaxCalls
    /\ calls' = calls + 1
    /\ entry' = e
    /\ shape' = sh
    /\ arguments' = [present |-> TRUE, query |-> Render(sh)]
    /\ pc' = "called"
    /\ result' = NoResult
    /\ UNCHANGED <<session, auth_time, init_task, insights, codebase_vars, now, sql_calls,
                   verdicts, ticks, inits, server_vars>>

\* time passes: a second, or the life of an authentication
Tick(d) ==
    /\ ticks < MaxTicks
    /\ ticks' = ticks + 1
    /\ now' = now + d
    /\ UNCHANGED <<shape, entry, arguments, pc, result, session, auth_time,
                   init_task, insights, codebase_vars, sql_calls, verdicts, calls, inits,
                   server_vars>>

NextCalls ==
    \/ \E e \in {"read_query", "execute_query"}, sh \in CallShapes : Call(e, sh)
    \/ \E d \in {1, AUTH_EXPIRATION_TIME} : Tick(d)
    \/ \E o \in InitOutcomes : InitTaskRun(o)
    \/ handle_read_query
    \/ call_execute_query
    \/ ResumeAfterInit

SpecCalls == InitCalls /\ [][NextCalls]_vars

\* ------------------------------------------------ server.py: the tool handlers
\* the fixed parts of the f-strings of handle_describe_table (lines 236-240),
\* handle_list_databases (line 73), handle_list_schemas (line 119) and
\* handle_list_tables (lines 172-176)
describe_table_1 ==
    <<"\n"," "," "," "," "," "," "," "," ","S","E","L","E","C","T"," ","c",
      "o","l","u","m","n","_","n","a","m","e",","," ","c","o","l","u","m",
      "n","_","d","e","f","a","u","l","t",","," ","i","s","_","n","u","l",
      "l","a","b","l","e",","," ","d","a","t","a","_","t","y","p","e",",",
      " ","c","o","m","m","e","n","t"," ","\n"," "," "," "," "," "," "," ",
      " ","F","R","O","M"," ">>

describe_table_2 ==
    <<".","i","n","f","o","r","m","a","t","i","o","n","_","s","c","h","e",
      "m","a",".","c","o","l","u","m","n","s"," ","\n"," "," "," "," "," ",
      " "," "," ","W","H","E","R","E"," ","t","a","b","l","e","_","s","c",
      "h","e","m","a"," ","="," ","'">>

describe_table_3 ==
    <<"'"," ","A","N","D"," ","t","a","b","l","e","_","n","a","m","e"," ",
      "="," ","'">>

describe_table_4 ==
    <<"'","\n"," "," "," "," ">>

list_databases_query ==
    <<"S","E","L","E","C","T"," ","D","A","T","A","B","A","S","E","_","N",
      "A","M","E"," ","F","R","O","M"," ","I","N","F","O","R","M","A","T",
      "I","O","N","_","S","C","H","E","M","A",".","D","A","T","A","B","A",
      "S","E","S">>

list_schemas_1 ==
    <<"S","E","L","E","C","T"," ","S","C","H","E","M","A","_","N","A","M",
      "E"," ","F","R","O","M"," ">>

list_schemas_2 ==
    <<".","I","N","F","O","R","M","A","T","I","O","N","_","S","C","H","E",
      "M","A",".","S","C","H","E","M","A","T","A">>

list_tables_1 ==
    <<"\n"," "," "," "," "," "," "," "," ","S","E","L","E","C","T"," ","t",
      "a","b","l","e","_","c","a","t","a","l","o","g",","," ","t","a","b",
      "l","e","_","s","c","h","e","m","a",","," ","t","a","b","l","e","_",
      "n","a","m","e",","," ","c","o","m","m","e","n","t"," ","\n"," "," ",
      " "," "," "," "," "," ","F","R","O","M"," ">>

list_tables_2 ==
    <<".","i","n","f","o","r","m","a","t","i","o","n","_","s","c","h","e",
      "m","a",".","t","a","b","l","e","s"," ","\n"," "," "," "," "," "," ",
      " "," ","W","H","E","R","E"," ","t","a","b","l","e","_","s","c","h",
      "e","m","a"," ","="," ","'">>

list_tables_3 ==
    <<"'","\n"," "," "," "," ">>

\* end (exclusive) of the part that starts at i: the next '.' or the end
RECURSIVE partEnd(_, _)
partEnd(s, i) ==
    IF i > Len(s) THEN i
    ELSE IF s[i] = "." THEN i ELSE partEnd(s, i + 1)

\* str.split("."): the parts between the dots, empty parts included
RECURSIVE splitDots(_, _)
splitDots(s, i) ==
    LET e == partEnd(s, i) IN
    IF e > Len(s) THEN <<SubSeq(s, i, Len(s))>>
    ELSE <<SubSeq(s, i, e - 1)>> \o splitDots(s, e + 1)

\* the keys a tool's arguments may hold; a key that is not given maps to Absent
ArgKeys == {"query", "table_name", "database", "schema", "insight", "uri"}
Absent == <<"absent">>
NoArguments == [k \in ArgKeys |-> Absent]
Has(args, k) == args[k] # Absent

\* what a handler does before db.execute_query: it raises, or passes a text on
\* or, without a query, returns a text
Fail(error) == [raises |-> error, query |-> <<>>, returns |-> ""]
Pass(query) == [raises |-> "", query |-> query, returns |-> ""]
Reply(text) == [raises |-> "", query |-> <<>>, returns |-> text]

\* handle_describe_table up to its call of db.execute_query
handle_describe_table(args) ==
    IF ~Has(args, "table_name") THEN Fail("MissingArgument")
    ELSE LET split_identifier == splitDots(args["table_name"], 1) IN
         IF Len(split_identifier) < 3 THEN Fail("NotQualified")
         ELSE Pass(describe_table_1 \o upper(split_identifier[1])
                   \o describe_table_2 \o upper(split_identifier[2])
                   \o describe_table_3 \o upper(split_identifier[3])
                   \o describe_table_4)

\* handle_list_databases up to its call of db.execute_query
handle_list_databases(args) == Pass(list_databases_query)

\* handle_list_schemas up to its call of db.execute_query
handle_list_schemas(args) ==
    IF ~Has(args, "database") THEN Fail("MissingArgument")
    ELSE Pass(list_schemas_1 \o upper(args["database"]) \o list_schemas_2)

\* handle_list_tables up to its call of db.execute_query
handle_list_tables(args) ==
    IF ~Has(args, "database") \/ ~Has(args, "schema") THEN Fail("MissingArgument")
    ELSE Pass(list_tables_1 \o args["database"] \o list_tables_2
              \o upper(args["schema"]) \o list_tables_3)

\* handle_read_query up to its call of db.execute_query, without the detector
read_query_noDetector(args) ==
    IF ~Has(args, "query") THEN Fail("MissingQuery") ELSE Pass(args["query"])

\* handle_read_query up to its call of db.execute_query
read_query(args) ==
    IF ~Has(args, "query") THEN Fail("MissingQuery")
    ELSE IF analyze_query(args["query"]).contains_write THEN Fail("ContainsWrite")
    ELSE Pass(args["query"])

\* handle_write_query with the disabled body restored (lines 313-318)
handle_write_query_enabled(args) ==
    IF ~allow_write THEN Fail("WriteNotAllowed")
    ELSE IF ~Has(args, "query") THEN Fail("KeyError")
    ELSE Pass(args["query"])

\* handle_write_query: raises whatever it is given
handle_write_query(args) == Fail("WriteDisabled")

\* handle_create_table: raises whatever it is given
handle_create_table(args) == Fail("CreateDisabled")

\* db.execute_query called with a text by the embedding program
direct_execute_query(args) == Pass(args["query"])

\* the handlers defined in server.py, and db.execute_query itself
Handlers ==
    {"describe_table", "read_query", "list_databases", "list_schemas",
     "list_tables", "write_query", "create_table", "execute_query"}

\* the handler's part before db.execute_query, by name
request(name, args) ==
    CASE name = "describe_table" -> handle_describe_table(args)
      [] name = "read_query" -> read_query(args)
      [] name = "list_databases" -> handle_list_databases(args)
      [] name = "list_schemas" -> handle_list_schemas(args)
      [] name = "list_tables" -> handle_list_tables(args)
      [] name = "write_query" -> handle_write_query(args)
      [] name = "create_table" -> handle_create_table(args)
      [] name = "execute_query" -> direct_execute_query(args)

\* ------------------------------------------------------ claude_code.py
\* Texts the handlers build are sequences of pieces: what comes from the
\* caller or from the external command is kept character by character, a
\* literal of the source is one piece. The response texts of the table are
\* abbreviated to "response <n>".

\* CACHED_RESPONSES[0] (lines 24-36)
CachedResponse1 ==
    [ keywords |->
            <<<<"l","i","v","e"," ","v","i","d","e","o">>,
              <<"l","i","v","e","s","t","r","e","a","m">>,
              <<"s","t","r","e","a","m","i","n","g">>,
              <<"v","i","d","e","o"," ","s","t","r","e","a","m">>,
              <<"v","i","d","e","o">>,
              <<"l","i","v","e">>>>,
      query_pattern |->
            <<<<<<"l","i","v","e">>, <<"v","i","d","e","o">>>>,
              <<<<"l","i","v","e","s","t","r","e","a","m">>>>,
              <<<<"s","t","r","e","a","m","i","n","g">>>>,
              <<<<"v","i","d","e","o">>, <<"s","t","r","e","a","m">>>>>>,
      response |-> "response 1",
      tool_type |-> "analytics" ]

\* CACHED_RESPONSES[1] (lines 37-49)
CachedResponse2 ==
    [ keywords |->
            <<<<"l","i","v","e"," ","v","i","d","e","o">>,
              <<"l","i","v","e","s","t","r","e","a","m">>,
              <<"s","t","r","e","a","m","i","n","g">>,
              <<"v","i","d","e","o"," ","s","t","r","e","a","m">>,
              <<"v","i","d","e","o">>,
              <<"l","i","v","e">>>>,
      query_pattern |->
            <<<<<<"l","i","v","e">>, <<"v","i","d","e","o">>>>,
              <<<<"l","i","v","e","s","t","r","e","a","m">>>>,
              <<<<"s","t","r","e","a","m","i","n","g">>>>,
              <<<<"v","i","d","e","o">>, <<"s","t","r","e","a","m">>>>>>,
      response |-> "response 2",
      tool_type |-> "specifics" ]

\* CACHED_RESPONSES[2] (lines 50-66)
CachedResponse3 ==
    [ keywords |->
            <<<<"n","o","t","e","s">>,
              <<"f","e","e","d">>,
              <<"n","o","t","e">>,
              <<"n","o","t","e","s"," ","f","e","e","d">>,
              <<"f","e","e","d"," ","n","o","t","e","s">>,
              <<"n","o","t","e"," ","f","e","e","d">>,
              <<"f","e","e","d"," ","n","o","t","e">>,
              <<"n","o","t","e">>,
              <<"n","o","t","e","s">>,
              <<"f","e","e","d">>>>,
      query_pattern |->
            <<<<<<"n","o","t","e","s">>>>,
              <<<<"f","e","e","d">>>>,
              <<<<"n","o","t","e">>>>,
              <<<<"n","o","t","e","s">>, <<"f","e","e","d">>>>,
              <<<<"f","e","e","d">>, <<"n","o","t","e","s">>>>,
              <<<<"n","o","t","e">>, <<"f","e","e","d">>>>,
              <<<<"f","e","e","d">>, <<"n","o","t","e">>>>>>,
      response |-> "response 3",
      tool_type |-> "analytics" ]

\* CACHED_RESPONSES[3] (lines 67-80)
CachedResponse4 ==
    [ keywords |->
            <<<<"m","o","n","e","y">>,
              <<"r","e","v","e","n","u","e">>,
              <<"a","r","r">>,
              <<"s","u","b","s","c","r","i","p","t","i","o","n">>,
              <<"s","u","b","s","c","r","i","p","t","i","o","n","s">>,
              <<"s","u","b","s","c","r","i","p","t","i","o","n"," ","r","e","v","e","n","u","e">>,
              <<"s","u","b","s","c","r","i","p","t","i","o","n","s"," ","r","e","v","e","n","u","e">>>>,
      query_pattern |->
            <<<<<<"m","o","n","e","y">>>>,
              <<<<"r","e","v","e","n","u","e">>>>,
              <<<<"a","r","r">>>>,
              <<<<"s","u","b","s","c","r","i","p","t","i","o","n">>>>,
              <<<<"s","u","b","s","c","r","i","p","t","i","o","n","s">>>>,
              <<<<"s","u","b","s","c","r","i","p","t","i","o","n">>, <<"r","e","v","e","n","u","e">>>>,
              <<<<"s","u","b","s","c","r","i","p","t","i","o","n","s">>, <<"r","e","v","e","n","u","e">>>>>>,
      response |-> "response 4",
      tool_type |-> "analytics" ]

\* CACHED_RESPONSES[4] (lines 81-91)
CachedResponse5 ==
    [ keywords |->
            <<<<"n","o","t","i","f","i","c","a","t","i","o","n">>,
              <<"n","o","t","i","f","i","c","a","t","i","o","n","s">>,
              <<"p","u","s","h"," ","n","o","t","i","f","i","c","a","t","i","o","n","s">>,
              <<"p","u","s","h">>>>,
      query_pattern |->
            <<<<<<"n","o","t","i","f","i","c","a","t","i","o","n">>>>,
              <<<<"n","o","t","i","f","i","c","a","t","i","o","n","s">>>>,
              <<<<"p","u","s","h">>, <<"n","o","t","i","f","i","c","a","t","i","o","n","s">>>>,
              <<<<"p","u","s","h">>>>>>,
      response |-> "response 5",
      tool_type |-> "analytics" ]

\* CACHED_RESPONSES[5] (lines 92-102)
CachedResponse6 ==
    [ keywords |->
            <<<<"e","m","a","i","l">>,
              <<"e","m","a","i","l","s">>,
              <<"e","m","a","i","l"," ","s","t","a","t","i","s","t","i","c","s">>,
              <<"e","m","a","i","l"," ","s","t","a","t","s">>>>,
      query_pattern |->
            <<<<<<"e","m","a","i","l">>>>,
              <<<<"e","m","a","i","l","s">>>>,
              <<<<"e","m","a","i","l">>, <<"s","t","a","t","i","s","t","i","c","s">>>>,
              <<<<"e","m","a","i","l">>, <<"s","t","a","t","s">>>>>>,
      response |-> "response 6",
      tool_type |-> "analytics" ]
\* CACHED_RESPONSES (lines 23-103), in table order
CACHED_RESPONSES ==
    <<CachedResponse1, CachedResponse2, CachedResponse3, CachedResponse4,
      CachedResponse5, CachedResponse6>>

\* the tool_type values the dataclass names (line 19)
ToolTypes == {"analytics", "general", "specifics"}

\* keyword in query_lower
Contains(s, k) == \E i \in 1..Len(s) : OccursAt(s, k, i)

\* the literals of one alternative of a pattern, with \s* between them, match
\* s from position i on
RECURSIVE matchParts(_, _, _, _)
matchParts(s, i, parts, k) ==
    IF k > Len(parts) THEN TRUE
    ELSE /\ OccursAt(s, parts[k], i)
         /\ matchParts(s, skipSpace(s, i + Len(parts[k])), parts, k + 1)

\* bool(re.search(query_pattern, query_lower, re.IGNORECASE))
re_search(query_pattern, s) ==
    \E a \in 1..Len(query_pattern), i \in 1..Len(s) :
        matchParts(s, i, query_pattern[a], 1)

\* the test of one entry in find_cached_response (lines 191-199)
Matches(cached, query_lower) ==
    LET keyword_matches ==
            Cardinality({k \in 1..Len(cached.keywords) :
                            Contains(query_lower, cached.keywords[k])})
        pattern_match == re_search(cached.query_pattern, query_lower)
    IN keyword_matches > 0 \/ pattern_match

\* the loop of find_cached_response without the test of tool_type
RECURSIVE cached_loop_anyType(_, _, _)
cached_loop_anyType(query_lower, tool_type, n) ==
    IF n > Len(CACHED_RESPONSES) THEN 0
    ELSE IF Matches(CACHED_RESPONSES[n], query_lower) THEN n
    ELSE cached_loop_anyType(query_lower, tool_type, n + 1)

\* the loop of find_cached_response (lines 186-207) from entry n on: the place
\* in the table of the entry it returns, 0 when it falls through
RECURSIVE cached_loop(_, _, _)
cached_loop(query_lower, tool_type, n) ==
    IF n > Len(CACHED_RESPONSES) THEN 0
    ELSE IF CACHED_RESPONSES[n].tool_type # tool_type
    THEN cached_loop(query_lower, tool_type, n + 1)
    ELSE IF Matches(CACHED_RESPONSES[n], query_lower) THEN n
    ELSE cached_loop(query_lower, tool_type, n + 1)

\* find_cached_response (lines 179-212): the place in the table of the entry
\* it returns, 0 for None
find_cached_response(query, tool_type) == cached_loop(lower(query), tool_type, 1)

\* start_marker and end_marker (lines 296-297, 390-391, 494-495)
start_marker ==
    <<"=","=","=","F","I","N","A","L","_","A","N","S","W","E","R","=","=","=">>
end_marker ==
    <<"=","=","=","E","N","D","_","A","N","S","W","E","R","=","=","=">>

\* the sentence behind a cached response (lines 230, 453); its leading emoji
\* is left out
cached_notice ==
    <<"\n\n", "*This was a cached response for demo purposes - normally would take 2-3 minutes to generate via Claude Code*">>

\* the sentence handle_analytics_codebase_query puts behind an output without
\* markers (line 313); the backquotes around the tool's name are left out
analytics_hint ==
    <<"\n\n For more information on a specific table or event, use the query_substack_analytics_specifics tool.">>

\* the text of the timeout (lines 334, 425, 527)
timed_out ==
    <<"Query timed out after 3 minutes. Try a more specific query or break it into smaller parts.">>

\* str.find(sub) from position i on (0-based): the first place where sub
\* occurs, -1 when there is none
RECURSIVE findFrom(_, _, _)
findFrom(s, sub, i) ==
    IF i + Len(sub) > Len(s) THEN -1
    ELSE IF OccursAt(s, sub, i + 1) THEN i
    ELSE findFrom(s, sub, i + 1)

find(s, sub) == findFrom(s, sub, 0)

\* s[a:b] for a, b >= 0
slice(s, a, b) ==
    LET e == IF b < Len(s) THEN b ELSE Len(s) IN
    IF a >= e THEN <<>> ELSE SubSeq(s, a + 1, e)

\* the extraction taking the last end marker for the first one
extract_answer_lastEnd(output, fallback) ==
    LET start_idx == find(output, start_marker)
        ends == {b \in 0..Len(output) : OccursAt(output, end_marker, b + 1)}
        end_idx == IF ends = {} THEN -1 ELSE CHOOSE b \in ends : \A c \in ends : c <= b
    IN IF start_idx # -1 /\ end_idx # -1
       THEN strip(slice(output, start_idx + Len(start_marker), end_idx))
       ELSE strip(output) \o fallback

\* the extraction of the answer from the output (lines 295-314, 389-408,
\* 493-509); fallback is what the handler puts behind an output without markers
extract_answer(output, fallback) ==
    LET start_idx == find(output, start_marker)
        end_idx == find(output, end_marker)
    IN IF start_idx # -1 /\ end_idx # -1
       THEN strip(slice(output, start_idx + Len(start_marker), end_idx))
       ELSE strip(output) \o fallback

\* what the machine does with the command: whether the two paths exist,
\* whether starting the process fails (raises with its message), how many
\* seconds the process takes, and what it leaves
Command(raises, message, duration, returncode, stdout, stderr) ==
    [ command_exists |-> TRUE, codebase_exists |-> TRUE, raises |-> raises,
      message |-> message, duration |-> duration, returncode |-> returncode,
      stdout |-> stdout, stderr |-> stderr ]

\* subprocess.run(..., timeout=timeout) on such a machine
subprocess_run(env, timeout) ==
    IF env.raises # "" THEN [kind |-> env.raises, message |-> env.message]
    ELSE IF env.duration > timeout THEN [kind |-> "TimeoutExpired", message |-> <<>>]
    ELSE [kind |-> "CompletedProcess", message |-> <<>>]

\* what a handler gives: the exception it raises or the texts of the
\* TextContent list it returns, the cache lookups it made, and whether it called
\* subprocess.run
Outcome(raises, texts, looked, ran) ==
    [raises |-> raises, contents |-> texts, looked |-> looked, ran |-> ran]

Looked(query, tool_type) ==
    {[query |-> query, tool_type |-> tool_type,
      found |-> find_cached_response(query, tool_type)]}

\* the try statement without its except clauses
run_claude_noExcept(env, fallback, failed, looked) ==
    LET completed == subprocess_run(env, 180) IN
    IF completed.kind # "CompletedProcess"
    THEN Outcome(completed.kind, <<>>, looked, TRUE)
    ELSE IF env.returncode = 0
    THEN Outcome("", <<extract_answer(env.stdout, fallback)>>, looked, TRUE)
    ELSE Outcome("", <<(<<"Error: ">> \o env.stderr)>>, looked, TRUE)

\* the try statement of the three handlers (lines 268-344, 362-435, 466-536):
\* subprocess.run and what is made of its result; failed is the handler's
\* "Failed to query ... codebase: "
run_claude(env, fallback, failed, looked) ==
    LET completed == subprocess_run(env, 180) IN
    IF completed.kind = "TimeoutExpired"
    THEN Outcome("", <<timed_out>>, looked, TRUE)
    ELSE IF completed.kind # "CompletedProcess"
    THEN Outcome("", <<(<<failed>> \o completed.message)>>, looked, TRUE)
    ELSE IF env.returncode = 0
    THEN Outcome("", <<extract_answer(env.stdout, fallback)>>, looked, TRUE)
    ELSE Outcome("", <<(<<"Error: ">> \o env.stderr)>>, looked, TRUE)

\* the text of a cached response (lines 227-232, 450-455)
cached_text(found) == <<CACHED_RESPONSES[found].response>> \o cached_notice

\* handle_analytics_codebase_query going to the command without the lookup
handle_analytics_codebase_query_noCache(args, env) ==
    IF ~Has(args, "query") THEN Outcome("MissingQuery", <<>>, {}, FALSE)
    ELSE IF ~env.command_exists
    THEN Outcome("", <<(<<"Claude command not found at: ", "CLAUDE_COMMAND">>)>>, {}, FALSE)
    ELSE IF ~env.codebase_exists
    THEN Outcome("", <<(<<"Codebase path not found: ", "SUBSTACK_CODEBASE_PATH">>)>>, {}, FALSE)
    ELSE run_claude(env, analytics_hint, "Failed to query analytics codebase: ", {})

\* handle_analytics_codebase_query (lines 215-344)
handle_analytics_codebase_query(args, env) ==
    IF ~Has(args, "query") THEN Outcome("MissingQuery", <<>>, {}, FALSE)
    ELSE LET query == args["query"]
             looked == Looked(query, "analytics")
             cached_response == find_cached_response(query, "analytics")
         IN IF cached_response # 0
            THEN Outcome("", <<cached_text(cached_response)>>, looked, FALSE)
            ELSE IF ~env.command_exists
            THEN Outcome("", <<(<<"Claude command not found at: ", "CLAUDE_COMMAND">>)>>,
                         looked, FALSE)
            ELSE IF ~env.codebase_exists
            THEN Outcome("", <<(<<"Codebase path not found: ", "SUBSTACK_CODEBASE_PATH">>)>>,
                         looked, FALSE)
            ELSE run_claude(env, analytics_hint,
                            "Failed to query analytics codebase: ", looked)

\* handle_analytics_specifics_codebase_query (lines 347-435)
handle_analytics_specifics_codebase_query(args, env) ==
    IF ~Has(args, "query") THEN Outcome("MissingQuery", <<>>, {}, FALSE)
    ELSE run_claude(env, <<>>, "Failed to query analytics codebase: ", {})

\* handle_general_codebase_query (lines 438-536)
handle_general_codebase_query(args, env) ==
    IF ~Has(args, "query") THEN Outcome("MissingQuery", <<>>, {}, FALSE)
    ELSE LET query == args["query"]
             looked == Looked(query, "general")
             cached_response == find_cached_response(query, "general")
         IN IF cached_response # 0
            THEN Outcome("", <<cached_text(cached_response)>>, looked, FALSE)
            ELSE run_claude(env, <<>>, "Failed to query general codebase: ", looked)

\* outputs of the command: the answer between the markers, no marker, one
\* marker only, the end marker first, two answers, and the markers overlapping
Outputs ==
    { <<" ">> \o start_marker \o <<"\n","4"," ","2","\n">> \o end_marker \o <<"\n">>,
      <<"4"," ","2"," ">>,
      start_marker \o <<"4">>,
      <<"4">> \o end_marker,
      end_marker \o <<"4">> \o start_marker \o <<"2">>,
      start_marker \o <<"a">> \o end_marker \o start_marker \o <<"b">> \o end_marker,
      SubSeq(start_marker, 1, 15) \o end_marker }

boom == <<"b","o","o","m">>

\* the machines: the command ends with code 0 and some output, ends with
\* code 1, outlasts the timeout, cannot be started; the script is missing (node
\* ends with code 1); the codebase directory is missing (no process starts)
Envs ==
    { Command("", <<>>, 1, 0, o, <<>>) : o \in Outputs }
      \cup { Command("", <<>>, 1, 1, <<>>, boom),
             Command("", <<>>, 181, 0, <<"4">>, <<>>),
             Command("OSError", boom, 0, 0, <<>>, <<>>),
             [Command("", <<>>, 1, 1, <<>>, boom) EXCEPT !.command_exists = FALSE],
             [Command("FileNotFoundError", boom, 0, 0, <<>>, <<>>)
                EXCEPT !.codebase_exists = FALSE] }

\* the tools of the three handlers (lines 471-515)
codebase_tools ==
    {"query_substack_analytics", "query_substack_analytics_specifics",
     "query_substack_codebase"}

\* the handler of a codebase tool, by name
codebase_query(name, args, env) ==
    CASE name = "query_substack_analytics" -> handle_analytics_codebase_query(args, env)
      [] name = "query_substack_analytics_specifics" ->
            handle_analytics_specifics_codebase_query(args, env)
      [] name = "query_substack_codebase" -> handle_general_codebase_query(args, env)

\* ------------------------------------------ db_client.py: the insight memo
\* SnowflakeDB.add_insight (lines 113-115): the list after the call
add_insight(list, insight) == Append(list, insight)

\* "\n".join(f"- {insight}" for insight in list[k:])
RECURSIVE joinLines(_, _)
joinLines(list, k) ==
    IF k > Len(list) THEN <<>>
    ELSE (IF k > 1 THEN <<"\n">> ELSE <<>>) \o <<"- ">> \o list[k] \o joinLines(list, k + 1)

\* SnowflakeDB.get_memo with the summary behind every list that is not empty
get_memo_alwaysSummary(list) ==
    IF list = <<>> THEN <<"No data insights have been discovered yet.">>
    ELSE <<"Data Intelligence Memo\n\n", "Key Insights Discovered:\n\n">>
         \o joinLines(list, 1)
         \o <<"\n\nSummary:\nAnalysis has revealed ", ToString(Len(list)),
              " key data insights that suggest opportunities for strategic optimization and growth.">>

\* SnowflakeDB.get_memo (lines 117-129) on a list of insights; the emoji around
\* the title are left out
get_memo(list) ==
    IF list = <<>> THEN <<"No data insights have been discovered yet.">>
    ELSE <<"Data Intelligence Memo\n\n", "Key Insights Discovered:\n\n">>
         \o joinLines(list, 1)
         \o (IF Len(list) > 1
             THEN <<"\n\nSummary:\nAnalysis has revealed ", ToString(Len(list)),
                    " key data insights that suggest opportunities for strategic optimization and growth.">>
             ELSE <<>>)

\* the resources a client may ask for: the memo, the description of a table,
\* and one that does not exist
memo_uri == <<"memo://insights">>
table_uri == <<"context://table/t">>
other_uri == <<"file://x">>

\* handle_read_resource (lines 553-564): the text it returns or the exception
\* it raises; tables_info is a name that server.py never binds
handle_read_resource(uri, list) ==
    IF uri = memo_uri THEN [raises |-> "", text |-> get_memo(list)]
    ELSE IF uri = table_uri THEN [raises |-> "NameError", text |-> <<>>]
    ELSE [raises |-> "UnknownResource", text |-> <<>>]

\* what is called on the memo: the handler handle_append_insight, the
\* methods add_insight and get_memo, and handle_read_resource
memo_calls == {"append_insight", "add_insight", "get_memo", "read_resource"}

\* ------------------------------------------- server.py: handle_call_tool
\* In the specifications of the server entry, arguments, pc, result and
\* response hold one value per call slot, and sql_calls records the number and
\* the tool of the call with the text.

\* the tools of all_tools (lines 426-516) and their tags: none has any
all_tools ==
    {"health_check", "describe_table", "read_query", "query_substack_analytics",
     "query_substack_analytics_specifics", "query_substack_codebase"}
tags(tool) == {}

exclude_tags == IF ~allow_write THEN {"write"} ELSE {}

\* allowed_tools without the filter: every tool of all_tools
allowed_tools_unfiltered == all_tools

\* allowed_tools (lines 521-526), by name
allowed_tools ==
    {tool \in all_tools : tool \notin exclude_tools /\ tags(tool) \cap exclude_tags = {}}

\* handle_list_tools: the names of the tools it lists
handle_list_tools == {tool : tool \in allowed_tools}

\* what a call returns: text contents by kind, or rows (Returned)
Text(kind) == [kind |-> kind, error |-> "", keyword |-> <<>>]
NoResponse == Text("none")

\* one TextContent "Error: <message of the exception>"
ErrorContent(e) == [kind |-> "error_text", error |-> e.error, keyword |-> e.keyword]

\* handle_tool_errors letting the exception through
handle_tool_errors_propagate(outcome) == outcome

\* handle_tool_errors: the wrapped function's result, or the error as text
handle_tool_errors(outcome) ==
    IF outcome.kind = "raised" THEN ErrorContent(outcome) ELSE outcome

\* the handler of health_check (lines 434-439), a lambda: the list it returns,
\* "Server is running. Session active: {db.session is not None}"
health_check ==
    Text(IF session # "None" THEN "Session active: True" ELSE "Session active: False")

\* await applied to what a handler call gave: a list is not awaitable
await(value) ==
    IF value.kind = "raised" THEN value ELSE Raised("TypeError", <<>>)

ViaTool(i) == entry[i].via = "call_tool"

\* call i ends in handle_call_tool or in its handler, before execute_query:
\* the handler's outcome (NoResult when none ran), and the outcome of the body
\* of handle_call_tool
End(i, handled, outcome) ==
    /\ pc' = [pc EXCEPT ![i] = "done"]
    /\ result' = [result EXCEPT ![i] = handled]
    /\ response' = [response EXCEPT ![i] =
                        IF ViaTool(i) THEN handle_tool_errors(outcome) ELSE @]
    /\ UNCHANGED <<session, auth_time, inits, sql_calls>>

\* call i ends or is suspended in execute_query(query) as e says
Settle(i, e, query) ==
    /\ pc' = [pc EXCEPT ![i] = e.pc]
    /\ result' = [result EXCEPT ![i] = e.result]
    /\ response' = [response EXCEPT ![i] =
                        IF ViaTool(i) /\ e.pc = "done"
                        THEN handle_tool_errors(e.result) ELSE @]
    /\ session' = e.session
    /\ auth_time' = e.auth_time
    /\ inits' = e.inits
    /\ sql_calls' = IF e.ran
                    THEN Append(sql_calls, [call |-> entry[i].id,
                                            name |-> entry[i].name, query |-> query])
                    ELSE sql_calls

\* the classification of a text by the handler named name joins the history
Record(name, query, v) ==
    verdicts' = verdicts \cup {[entry |-> name, query |-> query, verdict |-> v]}

\* the handler of call i from its start up to its first suspension or its end
Handle(i) ==
    LET name == entry[i].name
        r == request(name, arguments[i])
    IN IF r.raises # ""
       THEN /\ End(i, Raised(r.raises, <<>>), Raised(r.raises, <<>>))
            /\ IF r.raises = "ContainsWrite"
               THEN Record(name, arguments[i]["query"], Raised(r.raises, <<>>))
               ELSE UNCHANGED verdicts
       ELSE IF r.returns # ""
       THEN End(i, Text(r.returns), Text(r.returns)) /\ UNCHANGED verdicts
       ELSE \E e \in execute_query(r.query) :
                Settle(i, e, r.query) /\ Record(name, r.query, e.verdict)

\* a codebase handler, which does not suspend, on a machine env
Codebase(i, env) ==
    LET h == codebase_query(entry[i].name, arguments[i], env)
        outcome == IF h.raises # "" THEN Raised(h.raises, <<>>) ELSE Text("contents")
    IN /\ End(i, outcome, outcome)
       /\ contents' = [contents EXCEPT ![i] = h.contents]
       /\ lookups' = lookups \cup {[call |-> entry[i].id, lookup |-> l] : l \in h.looked}
       /\ commands' = IF h.ran
                      THEN Append(commands, [call |-> entry[i].id,
                                             name |-> entry[i].name, env |-> env])
                      ELSE commands
       /\ UNCHANGED verdicts

\* what a call that reaches no handler, or health_check, leaves alone
Untouched == UNCHANGED <<verdicts, commands, lookups, contents, insights>>

\* a call on the memo from its start up to its first suspension or its end:
\* handle_append_insight (lines 297-305) up to its await, db.add_insight,
\* db.get_memo, handle_read_resource
Memo(i) ==
    LET name == entry[i].name
        args == arguments[i]
    IN /\ CASE name = "append_insight" ->
                IF ~Has(args, "insight")
                THEN /\ End(i, Raised("MissingInsight", <<>>), Raised("MissingInsight", <<>>))
                     /\ UNCHANGED <<insights, contents>>
                ELSE /\ insights' = add_insight(insights, args["insight"])
                     /\ pc' = [pc EXCEPT ![i] = "await_send"]
                     /\ UNCHANGED <<result, response, contents, session, auth_time,
                                    inits, sql_calls>>
            [] name = "add_insight" ->
                /\ insights' = add_insight(insights, args["insight"])
                /\ End(i, Text("None"), Text("None"))
                /\ UNCHANGED contents
            [] name = "get_memo" ->
                /\ contents' = [contents EXCEPT ![i] = <<get_memo(insights)>>]
                /\ End(i, Text("memo"), Text("memo"))
                /\ UNCHANGED insights
            [] name = "read_resource" ->
                LET read == handle_read_resource(args["uri"], insights) IN
                /\ IF read.raises # ""
                   THEN /\ End(i, Raised(read.raises, <<>>), Raised(read.raises, <<>>))
                        /\ UNCHANGED contents
                   ELSE /\ contents' = [contents EXCEPT ![i] = <<read.text>>]
                        /\ End(i, Text("memo"), Text("memo"))
                /\ UNCHANGED insights
       /\ UNCHANGED <<verdicts, commands, lookups>>

\* handle_append_insight after "await ... send_resource_updated(...)": the
\* notification was sent, or sending it raised
Sent(i, ok) ==
    /\ pc[i] = "await_send"
    /\ IF ok THEN End(i, Text("Insight added to memo"), Text("Insight added to memo"))
       ELSE End(i, Raised("SendError", <<>>), Raised("SendError", <<>>))
    /\ UNCHANGED <<shape, entry, arguments, init_task, insights, now, verdicts,
                   calls, ticks, allow_write, exclude_tools, commands, lookups,
                   contents>>

\* handle_call_tool(name, arguments), or the handler called by itself, from
\* the call up to its first suspension or its end
Dispatch(i) ==
    /\ pc[i] = "called"
    /\ LET name == entry[i].name IN
       IF ViaTool(i) /\ name \in exclude_tools
       THEN End(i, NoResult, Text("excluded")) /\ Untouched
       ELSE IF ViaTool(i) /\ name \notin allowed_tools
       THEN End(i, NoResult, Raised("UnknownTool", <<>>)) /\ Untouched
       ELSE IF name = "health_check"
       THEN End(i, health_check, await(health_check)) /\ Untouched
       ELSE IF name \in codebase_tools
       THEN (\E env \in Envs : Codebase(i, env)) /\ UNCHANGED insights
       ELSE IF name \in memo_calls
       THEN Memo(i)
       ELSE Handle(i) /\ UNCHANGED <<codebase_vars, insights>>
    /\ UNCHANGED <<shape, entry, arguments, init_task, now, calls, ticks,
                   allow_write, exclude_tools>>

\* call i resumes from "await self.init_task" once the task is done
Resume(i) ==
    /\ pc[i] = "await_init_task"
    /\ init_task # "pending"
    /\ \E e \in after_init_task :
          Settle(i, e, request(entry[i].name, arguments[i]).query)
    /\ UNCHANGED <<shape, entry, arguments, init_task, insights, codebase_vars, now, verdicts,
                   calls, ticks, allow_write, exclude_tools>>

\* a call arrives in slot i
Arrive(i, c) ==
    /\ pc[i] \in {"idle", "done"}
    /\ calls' = calls + 1
    /\ entry' = [entry EXCEPT ![i] = [via |-> c.via, name |-> c.name, id |-> calls + 1]]
    /\ arguments' = [arguments EXCEPT ![i] = c.arguments]
    /\ pc' = [pc EXCEPT ![i] = "called"]
    /\ result' = [result EXCEPT ![i] = NoResult]
    /\ response' = [response EXCEPT ![i] = NoResponse]
    /\ contents' = [contents EXCEPT ![i] = <<>>]
    /\ UNCHANGED <<shape, session, auth_time, init_task, insights, commands, lookups, now, sql_calls,
                   verdicts, ticks, inits, allow_write, exclude_tools>>

\* a call that has not come yet
NoCall == [via |-> "none", name |-> "none", id |-> 0]

\* the state after main's setup (lines 421-526) with n call slots
InitServer(n) ==
    /\ shape = NoShape
    /\ entry = [i \in 1..n |-> NoCall]
    /\ arguments = [i \in 1..n |-> NoArguments]
    /\ pc = [i \in 1..n |-> "idle"]
    /\ result = [i \in 1..n |-> NoResult]
    /\ response = [i \in 1..n |-> NoResponse]
    /\ session = "None"
    /\ auth_time = 0
    /\ init_task = "pending"
    /\ insights = <<>>
    /\ commands = <<>>
    /\ lookups = {}
    /\ contents = [i \in 1..n |-> <<>>]
    /\ now = AUTH_EXPIRATION_TIME + 1
    /\ sql_calls = <<>>
    /\ verdicts = {}
    /\ calls = 0
    /\ ticks = 0
    /\ inits = 0

\* ------------------------------------------------- inputs: the tool calls
\* table names: not qualified, qualified, and one that closes the quote
unqualified == <<"t">>
qualified == <<"d",".","s",".","t">>
quoting ==
    <<"d",".","s",".","t","'",";"," ","d","r","o","p"," ","t"," ","-","-">>

\* database names: plain, and one that ends the statement
plain == <<"d">>
ending ==
    <<"d",";"," ","d","r","o","p"," ","t"," ","-","-">>

With(key, text) == [NoArguments EXCEPT ![key] = text]

ToolCall(name, args) == [via |-> "call_tool", name |-> name, arguments |-> args]
HandlerCall(name, args) == [via |-> "handler", name |-> name, arguments |-> args]

Queries == {Render(sh) : sh \in CallShapes}

\* calls of handle_call_tool: the tools of all_tools, the handlers that are
\* not among them, and a name that is no tool
ToolCalls ==
    { ToolCall(name, NoArguments) :
        name \in {"health_check", "describe_table", "read_query", "list_databases",
                  "query_substack_codebase", "no_such_tool"} }
      \cup { ToolCall("read_query", With("query", q)) : q \in Queries }
      \cup { ToolCall("describe_table", With("table_name", t)) :
                t \in {unqualified, qualified, quoting} }
      \cup { ToolCall(name, With("query", kwGRANT \o <<" ","T">>)) :
                name \in {"write_query", "create_table"} }

\* calls of the handlers that handle_call_tool cannot reach
HandlerCalls ==
    { HandlerCall(name, With("query", q)) :
        name \in {"write_query", "create_table"},
        q \in {kwGRANT \o <<" ","T">>, kwSELECT \o <<" ","1">>} }
      \cup { HandlerCall(name, NoArguments) :
                name \in {"list_databases", "list_schemas", "list_tables"} }
      \cup { HandlerCall("list_schemas", With("database", d)) : d \in {plain, ending} }
      \cup { HandlerCall("list_tables",
                         [With("database", plain) EXCEPT !["schema"] = <<"s">>]) }

\* ------------------------------------------- the server, one call at a time
InitTools ==
    /\ InitServer(1)
    /\ allow_write \in BOOLEAN
    /\ exclude_tools \in {{}, {"read_query"}}

\* the next call arrives once the previous one has ended
CallTool(c) == calls < MaxToolCalls /\ Arrive(1, c)

NextTools ==
    \/ \E c \in ToolCalls \cup HandlerCalls : CallTool(c)
    \/ \E o \in InitOutcomes : InitTaskRun(o)
    \/ Dispatch(1)
    \/ Resume(1)

SpecTools == InitTools /\ [][NextTools]_vars

\* ------------------------------------------- the server, calls interleaved
\* calls that reach db.execute_query or are refused on the way
AsyncCalls ==
    { ToolCall("read_query", With("query", q)) :
        q \in {kwSELECT \o <<" ","1">>, kwSELECT \o <<" ","1",";"," ">> \o kwDROP \o <<" ","T">>} }
      \cup { HandlerCall("execute_query", With("query", q)) :
                q \in {kwDROP \o <<" ","T">>, kwSELECT \o <<" ","1">>} }

InitAsync ==
    /\ InitServer(MaxInFlight)
    /\ allow_write = FALSE
    /\ exclude_tools = {}

\* a call arrives while earlier calls may still be on their way
CallMeanwhile(i, c) ==
    /\ pc[i] = "idle"
    /\ \A j \in 1..(i - 1) : pc[j] # "idle"
    /\ Arrive(i, c)

\* a call that waited for the init task can go on
Resumable == \E i \in DOMAIN pc : pc[i] = "await_init_task" /\ init_task # "pending"

\* time passes while the event loop has nothing to resume: just the life of
\* an authentication, or a second more
Sleep(d) == ~Resumable /\ Tick(d)

NextAsync ==
    \/ \E i \in 1..MaxInFlight, c \in AsyncCalls : CallMeanwhile(i, c)
    \/ \E d \in {AUTH_EXPIRATION_TIME, AUTH_EXPIRATION_TIME + 1} : Sleep(d)
    \/ \E o \in InitOutcomes : InitTaskRun(o)
    \/ \E i \in 1..MaxInFlight : Dispatch(i)
    \/ \E i \in 1..MaxInFlight : Resume(i)

SpecAsync == InitAsync /\ [][NextAsync]_vars

\* ------------------------------------------- the codebase-query handlers
\* questions: one of the first entry's in capitals, one of two entries
\* in the order opposite to the table's, one of two entries in the table's
\* order, one that holds a keyword inside a word, one of no entry, the empty one
CodebaseQueries ==
    { <<"L","i","v","e"," ","V","i","d","e","o">>,
      <<"E","M","A","I","L"," ","n","o","t","e","s">>,
      <<"p","u","s","h"," ","e","m","a","i","l">>,
      <<"c","a","r","r","y">>,
      <<"u","s","e","r","s">>,
      <<>> }

\* calls of the three tools with and without a query, and of their handlers
\* without a query and with the first one
CodebaseCalls ==
    { ToolCall(name, NoArguments) : name \in codebase_tools }
      \cup { HandlerCall(name, NoArguments) : name \in codebase_tools }
      \cup { ToolCall(name, With("query", q)) :
                name \in codebase_tools, q \in CodebaseQueries }
      \cup { HandlerCall(name, With("query", <<"L","i","v","e"," ","V","i","d","e","o">>)) :
                name \in codebase_tools }

InitCodebase ==
    /\ InitServer(1)
    /\ allow_write = FALSE
    /\ exclude_tools = {}

\* a call of a codebase tool or handler arrives
CallCodebase(c) == calls < MaxQueries /\ Arrive(1, c)

\* find_cached_response called by itself
Lookup(query, tool_type) ==
    /\ calls < MaxQueries
    /\ pc[1] = "idle"
    /\ calls' = calls + 1
    /\ lookups' = lookups \cup {[call |-> calls + 1, lookup |-> l] :
                                    l \in Looked(query, tool_type)}
    /\ UNCHANGED <<shape, entry, arguments, pc, result, session, auth_time,
                   init_task, insights, now, sql_calls, verdicts, ticks, inits,
                   allow_write, exclude_tools, response, commands, contents>>

NextCodebase ==
    \/ \E c \in CodebaseCalls : CallCodebase(c)
    \/ \E q \in CodebaseQueries, t \in ToolTypes : Lookup(q, t)
    \/ Dispatch(1)

SpecCodebase == InitCodebase /\ [][NextCodebase]_vars

\* ------------------------------------------------------ the insight memo
Insights == {<<"a">>, <<"b">>}

\* calls that add an insight: the handler with and without its argument, the
\* name through handle_call_tool, and the method
AppendCalls ==
    { HandlerCall("append_insight", NoArguments) }
      \cup { HandlerCall(name, With("insight", x)) :
                name \in {"append_insight", "add_insight"}, x \in Insights }
      \cup { ToolCall("append_insight", With("insight", x)) : x \in Insights }

\* calls that read: handle_read_resource with a uri, and the method
ReadCalls ==
    { [via |-> "read_resource", name |-> "read_resource", arguments |-> With("uri", u)] :
        u \in {memo_uri, table_uri, other_uri} }
      \cup { HandlerCall("get_memo", NoArguments) }

InitMemo ==
    /\ InitServer(2)
    /\ allow_write = FALSE
    /\ exclude_tools = {}

\* a call that adds comes in slot 1, a call that reads in slot 2, also while
\* the other slot's call is suspended
CallMemo(i, c) == calls < MaxMemoCalls /\ Arrive(i, c)

NextMemo ==
    \/ \E c \in AppendCalls : CallMemo(1, c)
    \/ \E c \in ReadCalls : CallMemo(2, c)
    \/ \E i \in 1..2 : Dispatch(i)
    \/ \E ok \in BOOLEAN : Sent(1, ok)

SpecMemo == InitMemo /\ [][NextMemo]_vars

\* =================================================================== claims
ReadPath == entry = "read_query" /\ arguments.present

\* the call was refused because the detector reported contains_write
RefusedAsWrite == result = Raised("ContainsWrite", <<>>)

\* the call was not let through to the session, and ends refused
NeverExecuted ==
    /\ sql_calls = <<>>
    /\ pc # "await_init_task"
    /\ pc = "done" => RefusedAsWrite

\* the call ended in a refusal of the text or in a failure of the check
Rejections == {"ContainsWrite", "ValueError", "IndexError"}

CommentLeads == {LineCommentLead, BlockCommentLead}

\* C1: a query whose leading token, after leading whitespace and in any
\* letter case, is one of the eleven mutating keywords is classified as a
\* write: read_query refuses it and it never reaches session.sql.
LeadingWrite == shape.lead \in {<<>>, BlankLead} /\ shape.first \in WriteStatements

C1_LeadingWriteRefused == (ReadPath /\ LeadingWrite) => NeverExecuted

C1_Witness ==
    /\ ReadPath /\ shape.lead = BlankLead /\ shape.case = "lower"
    /\ shape.first = kwGRANT \o <<" ","T">>
    /\ pc = "done" /\ RefusedAsWrite

\* C2: in a multi-statement query every ';'-separated segment counts: when a
\* later segment starts with a mutating keyword the query is a write whatever
\* the first segment is (SELECT 1; DROP T), and it is never executed.
LaterWrite == \E i \in 1..Len(shape.rest) : shape.rest[i] \in WriteStatements

C2_LaterSegmentWriteRefused == (ReadPath /\ LaterWrite) => NeverExecuted

C2_Witness ==
    /\ ReadPath /\ shape.lead = <<>> /\ shape.case = "upper"
    /\ shape.first = kwSELECT \o <<" ","1">>
    /\ shape.rest = << kwDROP \o <<" ","T">> >>
    /\ pc = "done" /\ RefusedAsWrite

\* C3: a query that opens with a line comment or a block comment and whose
\* first token after the comment is a mutating keyword is classified as a
\* write and refused.
CommentLedWrite == shape.lead \in CommentLeads /\ shape.first \in WriteStatements

C3_CommentLedWriteRefused == (ReadPath /\ CommentLedWrite) => NeverExecuted

C3_Witness ==
    /\ ReadPath /\ shape.lead = LineCommentLead
    /\ shape.first = kwDELETE \o <<" ","T">>
    /\ pc = "done" /\ RefusedAsWrite

\* C4: a WITH ... AS (...) statement is classified by the verb after the CTE
\* definitions: with a DML verb as its tail it is a write and refused.
CteWrite == shape.first \in CteWriteStatements

C4_CteWriteTailRefused == (ReadPath /\ CteWrite) => NeverExecuted

C4_Witness ==
    /\ ReadPath /\ shape.lead = <<>> /\ shape.rest = <<>>
    /\ shape.first = cteA \o kwINSERT \o <<" ","T">>
    /\ pc = "done" /\ RefusedAsWrite

\* C5: a query made of SELECT or WITH ... SELECT statements only, with no
\* mutating segment after it, is not classified as a write: neither the
\* detector nor the safety check refuses it, and when the session is there
\* the text is passed to session.sql.
PureRead ==
    /\ shape.first \in ReadStatements
    /\ \A i \in 1..Len(shape.rest) : shape.rest[i] \in {<<>>, kwSELECT \o <<" ","1">>}

C5_PureReadNotRefused ==
    (arguments.present /\ PureRead) =>
        /\ result.error \notin Rejections
        /\ (pc = "done" /\ result.kind = "data") => sql_calls = <<arguments.query>>

C5_Witness ==
    /\ ReadPath /\ shape.first = cteA \o kwSELECT \o <<" ","1">>
    /\ pc = "done" /\ result = Returned /\ sql_calls = <<arguments.query>>

\* C6: the classification does not depend on letter case: the verdict of a
\* call equals the verdict on the upper-cased, the lower-cased and the
\* mixed-case form of its query.
Verdict(e, text) ==
    IF e = "read_query" /\ analyze_query(text).contains_write
    THEN Raised("ContainsWrite", <<>>)
    ELSE IF safety_check(text).raised # "none"
    THEN Raised(safety_check(text).raised, safety_check(text).keyword)
    ELSE NoResult

Observed == IF result.error \in Rejections THEN result ELSE NoResult

C6_CaseInsensitive ==
    (arguments.present /\ pc = "done") =>
        /\ Observed = Verdict(entry, upper(arguments.query))
        /\ Observed = Verdict(entry, lower(arguments.query))
        /\ Observed = Verdict(entry, mixed(arguments.query))

C6_Witness ==
    /\ entry = "execute_query" /\ shape.case = "mixed" /\ shape.lead = <<>>
    /\ shape.first = kwINSERT \o <<" ","T">>
    /\ pc = "done" /\ result = Raised("ValueError", kwINSERT)

\* C7: an empty or whitespace-only query is classified as no write, and the
\* classification does not fail on it: the call is neither refused nor ended
\* by an error of the check.
EmptyInput ==
    shape.lead \in {<<>>, BlankLead} /\ shape.first = <<>> /\ shape.rest = <<>>

C7_EmptyIsNoWrite ==
    (arguments.present /\ EmptyInput) => result.error \notin Rejections

C7_Witness ==
    /\ ReadPath /\ EmptyInput /\ shape.lead = BlankLead
    /\ pc = "done" /\ result = Returned /\ sql_calls = <<arguments.query>>

\* C8: the check fails closed: a statement that is only a comment, or whose
\* leading token is not a recognised keyword, is classified as a write and
\* refused by read_query instead of being executed.
Ambiguous ==
    \/ shape.first \in AmbiguousStatements
    \/ shape.first = <<>> /\ shape.lead \in CommentLeads

C8_AmbiguousRefused == (ReadPath /\ Ambiguous) => NeverExecuted

C8_Witness ==
    /\ ReadPath /\ shape.first = Unrecognised /\ shape.lead = <<>>
    /\ pc = "done" /\ RefusedAsWrite

\* C9: the classification is a function of the query text alone: whatever
\* calls came before and whatever the state of the session, the init task and
\* the clock, every classification made so far is the verdict of its text,
\* so two classifications of one text agree; and a step that classifies a
\* text (refusing it, or passing it to wait for the init task) leaves session,
\* auth_time, init_task and insights as they were and runs no SQL.
VerdictsFollowText ==
    \A v \in verdicts : v.verdict = Verdict(v.entry, v.query)

VerdictsAgree ==
    \A a \in verdicts, b \in verdicts :
        (a.entry = b.entry /\ a.query = b.query) => a.verdict = b.verdict

ClassificationFrame ==
    (pc = "called" /\ (pc' = "await_init_task" \/ result'.error \in Rejections))
        => UNCHANGED <<session, auth_time, init_task, insights, sql_calls>>

C9_PureClassification ==
    [](VerdictsFollowText /\ VerdictsAgree) /\ [][ClassificationFrame]_vars

C9_Witness ==
    /\ calls = 2 /\ pc = "done" /\ entry = "execute_query"
    /\ result = Raised("ValueError", kwDROP)
    /\ Cardinality(verdicts) = 1
    /\ session = "live" /\ ticks = 1

\* C10: the classification has two outcomes and never raises: on every query
\* text the safety check either passes or raises its ValueError, the detector
\* returns READ or WRITE, and no call ends with an error of the check itself.
C10_NeverRaises ==
    /\ result.error # "IndexError"
    /\ arguments.present =>
        /\ safety_check(arguments.query).raised \in {"none", "ValueError"}
        /\ analyze_query(arguments.query).statement_type \in {"READ", "WRITE"}
        /\ analyze_query(arguments.query).contains_write \in BOOLEAN

C10_Witness ==
    /\ entry = "execute_query" /\ shape.first = CommentOnly /\ shape.lead = BlankLead
    /\ pc = "done" /\ result = Returned

\* C11: on the read_query path the detector is asked first: when it reports
\* contains_write the handler ends at once raising its error, and for that
\* call execute_query is never entered (its own check records no verdict, the
\* call never waits for the init task) and session.sql is never invoked.
DetectorRefuses == ReadPath /\ analyze_query(arguments.query).contains_write

C11_Refusal ==
    (DetectorRefuses /\ pc = "called" /\ pc' # "called") =>
        /\ pc' = "done"
        /\ result' = Raised("ContainsWrite", <<>>)
        /\ verdicts' = {[entry |-> entry, query |-> arguments.query,
                         verdict |-> Raised("ContainsWrite", <<>>)]}
        /\ UNCHANGED <<session, auth_time, init_task, sql_calls>>

C11_DetectorBeforeExecute ==
    /\ [](DetectorRefuses => (sql_calls = <<>> /\ pc \in {"called", "done"}))
    /\ [][C11_Refusal]_vars

C11_Witness ==
    /\ ReadPath /\ shape.lead = BlockCommentLead /\ shape.first = Unrecognised
    /\ shape.rest = << kwSELECT \o <<" ","1">> >>
    /\ session = "live" /\ init_task = "done"
    /\ pc = "done" /\ RefusedAsWrite /\ sql_calls = <<>>

\* C12: when a statement led by a mutating keyword is rejected as a write, the
\* error given to the caller names that keyword.  The SAFETY error of
\* execute_query carries first_word; the error of handle_read_query is a fixed
\* text without it.
C12_RejectionNamesKeyword ==
    (arguments.present /\ LeadingWrite /\ pc = "done" /\ result.error \in Rejections)
        => shape.first = result.keyword \o <<" ","T">>

\* C13: the write tools are disabled whatever allow_write, the arguments and
\* the detector say: a call of handle_write_query or handle_create_table ends
\* at once with the handler's error, a call of these names through
\* handle_call_tool ends with an error text, none of them ever waits for the
\* session, and no text run by session.sql came from a write tool.
WriteTools == {"write_query", "create_table"}

Disabled == {Raised("WriteDisabled", <<>>), Raised("CreateDisabled", <<>>)}

C13_WriteToolsDisabled ==
    /\ \A i \in DOMAIN pc :
          entry[i].name \in WriteTools =>
              /\ pc[i] \in {"called", "done"}
              /\ pc[i] = "done" =>
                    IF ViaTool(i) THEN response[i].kind = "error_text"
                    ELSE result[i] \in Disabled
    /\ \A k \in DOMAIN sql_calls : sql_calls[k].name \notin WriteTools

C13_Witness ==
    /\ allow_write /\ session = "live" /\ calls = 2 /\ Len(sql_calls) = 1
    /\ entry[1] = [via |-> "handler", name |-> "write_query", id |-> 2]
    /\ arguments[1]["query"] = kwSELECT \o <<" ","1">>
    /\ pc[1] = "done" /\ result[1] = Raised("WriteDisabled", <<>>)

\* C14: every text that a tool call brings to session.sql is one the write
\* detector classifies as not a write.  Only handle_read_query asks the
\* detector; handle_describe_table builds its text from the table name and
\* passes it to db.execute_query, whose check looks at the first word alone.
C14_ClassifiedBeforeRun ==
    \A k \in DOMAIN sql_calls :
        sql_calls[k].name \in all_tools =>
            ~analyze_query(sql_calls[k].query).contains_write

\* C15: calls that are in flight together do not disturb each other's
\* classification: under every interleaving each recorded verdict is the
\* verdict of its text alone, a read_query call ends refused exactly when the
\* detector reports its text as a write, and no text of a read_query call that
\* the detector reports as a write waits for the session or reaches
\* session.sql.
ReadQueryCall(i) == entry[i].name = "read_query" /\ Has(arguments[i], "query")

C15_ConcurrentClassification ==
    /\ \A v \in verdicts : v.verdict = Verdict(v.entry, v.query)
    /\ \A i \in DOMAIN pc :
          ReadQueryCall(i) =>
              LET write == analyze_query(arguments[i]["query"]).contains_write IN
              /\ pc[i] = "done" => (write <=> result[i] = Raised("ContainsWrite", <<>>))
              /\ write => pc[i] # "await_init_task"
    /\ \A k \in DOMAIN sql_calls :
          sql_calls[k].name = "read_query" =>
              ~analyze_query(sql_calls[k].query).contains_write

C15_Witness ==
    /\ ReadQueryCall(1) /\ pc[1] = "await_init_task"
    /\ ReadQueryCall(2) /\ pc[2] = "done"
    /\ arguments[2]["query"] = kwSELECT \o <<" ","1",";"," ">> \o kwDROP \o <<" ","T">>
    /\ result[2] = Raised("ContainsWrite", <<>>)
    /\ response[2] = ErrorContent(Raised("ContainsWrite", <<>>))
    /\ init_task = "done" /\ session = "live"

\* C16: execute_query checks the first keyword before anything else: for a
\* query whose first word, after leading whitespace and in any letter case, is
\* one of the eight write_keywords the call goes in one step to its end with
\* the ValueError that names the keyword, leaving session, auth_time and
\* init_task as they were; it starts no _init_database, never waits for the
\* init task and session.sql is not invoked.
BlockedVerb ==
    /\ entry = "execute_query"
    /\ shape.lead \in {<<>>, BlankLead}
    /\ \E kw \in write_keywords : shape.first = kw \o <<" ","T">>

C16_Refusal ==
    (BlockedVerb /\ pc = "called" /\ pc' # "called") =>
        /\ pc' = "done"
        /\ result'.error = "ValueError"
        /\ result'.keyword \o <<" ","T">> = shape.first
        /\ UNCHANGED <<session, auth_time, init_task, inits, sql_calls>>

C16_CheckComesFirst ==
    /\ [](BlockedVerb => (pc \in {"called", "done"} /\ sql_calls = <<>>))
    /\ [][C16_Refusal]_vars

C16_Witness ==
    /\ BlockedVerb /\ shape.lead = BlankLead /\ shape.case = "lower"
    /\ shape.first = kwTRUNCATE \o <<" ","T">>
    /\ pc = "done" /\ result = Raised("ValueError", kwTRUNCATE)
    /\ session = "live" /\ init_task = "done" /\ inits = 1 /\ sql_calls = <<>>

\* C17: while the init task is pending no other run of _init_database is
\* started and nothing is run: a call that passes the safety check is
\* suspended on the task, leaving the object as it is; each step runs
\* _init_database at most once; and a suspended call goes on only when the task
\* is done, without a run of its own: with the connection error and no query
\* when the task failed, with its query when the task succeeded.
C17_Step ==
    /\ inits' <= inits + 1
    /\ \A i \in DOMAIN pc :
          /\ (pc[i] = "called" /\ init_task = "pending" /\ pc'[i] # "called") =>
                /\ pc'[i] = "await_init_task" \/ result'[i].error \in Rejections
                /\ UNCHANGED <<session, auth_time, init_task, inits, sql_calls>>
          /\ (pc[i] = "await_init_task" /\ pc'[i] # "await_init_task") =>
                /\ init_task # "pending"
                /\ pc'[i] = "done"
                /\ UNCHANGED <<session, auth_time, init_task, inits>>
                /\ IF init_task = "failed"
                   THEN result'[i] = Raised("ConnectError", <<>>) /\ UNCHANGED sql_calls
                   ELSE /\ result'[i].error \in {"", "DatabaseError"}
                        /\ Len(sql_calls') = Len(sql_calls) + 1

C17_SingleInitialisation ==
    /\ [](init_task = "pending" => (inits = 0 /\ session = "None" /\ sql_calls = <<>>))
    /\ [][C17_Step]_vars

C17_Witness ==
    /\ init_task = "failed" /\ inits = 1 /\ sql_calls = <<>>
    /\ \A i \in {1, 2} :
          /\ pc[i] = "done" /\ result[i] = Raised("ConnectError", <<>>)
          /\ arguments[i]["query"] = kwSELECT \o <<" ","1">>
    /\ entry[1].name = "read_query" /\ entry[2].name = "execute_query"

\* C18: session.sql is only invoked on a session that exists and whose
\* authentication is at most AUTH_EXPIRATION_TIME old; a call that finds the
\* init task ended and the session missing or older than that runs
\* _init_database first, and when that run fails the call ends with the
\* connection error and its query is not run.
Stale == session = "None" \/ now - auth_time > AUTH_EXPIRATION_TIME

C18_Step ==
    /\ sql_calls' # sql_calls =>
          /\ session' = "live"
          /\ now' - auth_time' <= AUTH_EXPIRATION_TIME
          /\ Len(sql_calls') = Len(sql_calls) + 1
    /\ \A i \in DOMAIN pc :
          (/\ pc[i] = "called" /\ pc'[i] = "done" /\ Stale
           /\ result'[i].error \notin Rejections) =>
              /\ inits' = inits + 1
              /\ IF result'[i].error = "ConnectError"
                 THEN sql_calls' = sql_calls /\ auth_time' = auth_time
                 ELSE /\ session' = "live" /\ auth_time' = now
                      /\ sql_calls' = Append(sql_calls,
                            [call |-> entry[i].id, name |-> entry[i].name,
                             query |-> arguments[i]["query"]])

AfterFailure ==
    /\ init_task # "pending"
    /\ Stale
    /\ init_task = "failed" \/ \E j \in DOMAIN pc : result[j].error = "ConnectError"

C19_Step ==
    \A i \in DOMAIN pc :
        (/\ AfterFailure /\ pc[i] = "called" /\ pc'[i] # "called"
         /\ result'[i].error \notin Rejections) =>
            /\ pc'[i] = "done"
            /\ inits' = inits + 1
            /\ \/ result'[i].error = "ConnectError" /\ auth_time' # now
               \/ /\ session' = "live" /\ auth_time' = now
                  /\ result'[i].error \in {"", "DatabaseError"}
                  /\ Len(sql_calls') = Len(sql_calls) + 1

C19_FailureNotPermanent == [][C19_Step]_vars

C19_Witness ==
    /\ init_task = "failed" /\ inits = 2 /\ session = "live" /\ auth_time = now
    /\ pc[1] = "done" /\ result[1] = Raised("ConnectError", <<>>)
    /\ pc[2] = "done" /\ result[2] = Returned /\ Len(sql_calls) = 1

\* C20: handle_call_tool never lets an exception out: when the call has
\* ended, its answer is one text "Error: <message>" carrying the exception of
\* the handler or of the dispatch (a name that is no allowed tool, a handler
\* whose result cannot be awaited), and otherwise it is what the handler
\* returned, unchanged; the answer to an excluded name is the exclusion text.
Answered(i) == ViaTool(i) /\ pc[i] = "done"

C20_ErrorsBecomeText ==
    \A i \in DOMAIN pc :
        /\ response[i].kind # "raised"
        /\ ~Answered(i) => response[i] = NoResponse
        /\ Answered(i) =>
              response[i] =
                  IF entry[i].name \in exclude_tools THEN Text("excluded")
                  ELSE IF entry[i].name \notin allowed_tools
                  THEN [kind |-> "error_text", error |-> "UnknownTool", keyword |-> <<>>]
                  ELSE IF entry[i].name = "health_check"
                  THEN [kind |-> "error_text", error |-> "TypeError", keyword |-> <<>>]
                  ELSE IF result[i].kind = "raised"
                  THEN [kind |-> "error_text", error |-> result[i].error,
                        keyword |-> result[i].keyword]
                  ELSE result[i]

C20_Witness ==
    /\ calls = 2 /\ Answered(1) /\ entry[1].name = "describe_table"
    /\ arguments[1]["table_name"] = unqualified
    /\ result[1] = Raised("NotQualified", <<>>)
    /\ response[1] = [kind |-> "error_text", error |-> "NotQualified", keyword |-> <<>>]
    /\ Len(sql_calls) = 1

\* C21: the dispatch respects the exclusion: a handler runs only for a name
\* in allowed_tools; a call that names a tool of exclude_tools gets the
\* exclusion text and no handler runs; a call of any other name outside
\* allowed_tools gets the Unknown tool error and no handler runs; and the names
\* listed by handle_list_tools are exactly those for which a handler runs.
Invoked(i) ==
    \/ pc[i] = "await_init_task"
    \/ pc[i] = "done" /\ result[i] # NoResult

C21_DispatchRespectsExclusion ==
    \A i \in DOMAIN pc :
        ViaTool(i) =>
            /\ Invoked(i) => entry[i].name \in allowed_tools
            /\ Invoked(i) =>
                  /\ entry[i].name \in all_tools
                  /\ entry[i].name \notin exclude_tools
                  /\ tags(entry[i].name) \cap exclude_tags = {}
            /\ pc[i] = "done" =>
                  /\ entry[i].name \in exclude_tools =>
                        ~Invoked(i) /\ response[i] = Text("excluded")
                  /\ entry[i].name \notin exclude_tools \cup allowed_tools =>
                        /\ ~Invoked(i)
                        /\ response[i].kind = "error_text"
                        /\ response[i].error = "UnknownTool"
                  /\ Invoked(i) <=> entry[i].name \in handle_list_tools

C21_Witness ==
    /\ exclude_tools = {"read_query"} /\ session = "live" /\ calls = 2
    /\ ViaTool(1) /\ entry[1].name = "read_query"
    /\ arguments[1]["query"] = mixed(kwSELECT \o <<" ","1">>)
    /\ pc[1] = "done" /\ result[1] = NoResult /\ response[1] = Text("excluded")
    /\ Len(sql_calls) = 1

\* C22: a call of health_check through handle_call_tool answers with the
\* text "Server is running. Session active: <b>", b telling whether db.session
\* is not None.  The handler is a plain function that returns the list; the
\* dispatch awaits what it returned.
C22_HealthReported ==
    \A i \in DOMAIN pc :
        (ViaTool(i) /\ entry[i].name = "health_check" /\ pc[i] = "done"
         /\ "health_check" \in allowed_tools) =>
            response[i] \in {Text("Session active: True"), Text("Session active: False")}

\* C23: the cache comes before the command: a call of
\* handle_analytics_codebase_query or handle_general_codebase_query that has a
\* query looks it up in the cache as it goes, every command started by these
\* handlers belongs to a call whose lookup found nothing, and when the lookup
\* finds an entry the call ends in the same step with that entry's response
\* and the cached-response notice as its one text, no command being started.
CachedTools == {"query_substack_analytics", "query_substack_codebase"}

tool_type_of(name) == IF name = "query_substack_analytics" THEN "analytics" ELSE "general"

C23_Step ==
    \A i \in DOMAIN pc :
        (/\ pc[i] = "called" /\ pc'[i] = "done"
         /\ entry[i].name \in CachedTools /\ Has(arguments[i], "query")) =>
            LET query == arguments[i]["query"]
                tool_type == tool_type_of(entry[i].name)
                found == find_cached_response(query, tool_type)
            IN /\ [call |-> entry[i].id,
                   lookup |-> [query |-> query, tool_type |-> tool_type,
                               found |-> found]] \in lookups'
               /\ found # 0 =>
                     /\ commands' = commands
                     /\ result'[i].kind # "raised"
                     /\ contents'[i] =
                           << <<CACHED_RESPONSES[found].response>> \o cached_notice >>

C23_CacheShortCircuits ==
    /\ [](\A k \in DOMAIN commands :
            commands[k].name \in CachedTools =>
                \E l \in lookups :
                    l.call = commands[k].call /\ l.lookup.found = 0)
    /\ [][C23_Step]_vars

C23_Witness ==
    /\ ViaTool(1) /\ entry[1].name = "query_substack_analytics"
    /\ arguments[1]["query"] = <<"L","i","v","e"," ","V","i","d","e","o">>
    /\ pc[1] = "done" /\ response[1] = Text("contents")
    /\ contents[1] = << <<"response 1">> \o cached_notice >>
    /\ commands = <<>>
    /\ Cardinality(lookups) = 1

\* C24: find_cached_response(query, tool_type) returns the first entry of
\* CACHED_RESPONSES, in table order, whose tool_type is the requested one and
\* of which some keyword is a substring of the lower-cased query or whose
\* query_pattern matches it; None when there is no such entry; never an entry
\* of another tool_type.
Eligible(query, tool_type) ==
    {n \in DOMAIN CACHED_RESPONSES :
        /\ CACHED_RESPONSES[n].tool_type = tool_type
        /\ \/ \E k \in DOMAIN CACHED_RESPONSES[n].keywords :
                 Contains(lower(query), CACHED_RESPONSES[n].keywords[k])
           \/ re_search(CACHED_RESPONSES[n].query_pattern, lower(query))}

C24_FirstMatchInTableOrder ==
    \A l \in lookups :
        LET eligible == Eligible(l.lookup.query, l.lookup.tool_type)
            found == l.lookup.found
        IN /\ eligible = {} <=> found = 0
           /\ found # 0 =>
                 /\ found \in eligible
                 /\ \A n \in eligible : found <= n
                 /\ CACHED_RESPONSES[found].tool_type = l.lookup.tool_type

C24_Witness ==
    /\ calls = 1
    /\ lookups = {[call |-> 1,
                   lookup |-> [query |-> <<"L","i","v","e"," ","V","i","d","e","o">>,
                               tool_type |-> "specifics", found |-> 2]]}

\* C25 as stated: when the command ends with code 0 and both markers occur
\* in its output, the answer is the stripped text that lies between a start
\* marker and an end marker behind it; when a marker is missing, the answer
\* is the stripped output.
Occurrences(s, sub) == {a \in 0..Len(s) : OccursAt(s, sub, a + 1)}

\* the calls that got an answer from a command that ended with code 0
Extracted(i) ==
    {k \in DOMAIN commands :
        /\ commands[k].call = entry[i].id
        /\ pc[i] = "done"
        /\ subprocess_run(commands[k].env, 180).kind = "CompletedProcess"
        /\ commands[k].env.returncode = 0}

Least(S) == CHOOSE a \in S : \A b \in S : a <= b

Failed == {"Failed to query analytics codebase: ", "Failed to query general codebase: "}

C26_AlwaysOneText ==
    \A i \in DOMAIN pc :
        (/\ pc[i] = "done" /\ entry[i].name \in codebase_tools
         /\ Has(arguments[i], "query")) =>
            /\ result[i] = Text("contents")
            /\ Len(contents[i]) = 1
            /\ \A k \in DOMAIN commands :
                  commands[k].call = entry[i].id =>
                      LET env == commands[k].env
                          text == contents[i][1]
                      IN IF env.raises # ""
                         THEN /\ Len(text) = 1 + Len(env.message)
                              /\ text[1] \in Failed
                              /\ SubSeq(text, 2, Len(text)) = env.message
                         ELSE IF env.duration > 180
                         THEN text = timed_out
                         ELSE IF env.returncode = 0
                         THEN text = extract_answer(env.stdout,
                                        IF entry[i].name = "query_substack_analytics"
                                        THEN analytics_hint ELSE <<>>)
                         ELSE text = <<"Error: ">> \o env.stderr

C26_Witness ==
    /\ ~ViaTool(1) /\ entry[1].name = "query_substack_analytics_specifics"
    /\ arguments[1]["query"] = <<"L","i","v","e"," ","V","i","d","e","o">>
    /\ pc[1] = "done" /\ result[1] = Text("contents")
    /\ Len(commands) = 1 /\ commands[1].env.duration = 181
    /\ contents[1] = <<timed_out>>

\* C27: the memo reflects every insight added, in order.  A step changes the
\* insights list only by appending, and a call of add_insight or of
\* handle_append_insight with an insight appends just that insight; a reading
\* of the memo, by get_memo or through memo://insights, gives "No data insights
\* have been discovered yet." exactly when the list is empty and otherwise one
\* "- <insight>" line per insight in the order of insertion, with the summary
\* paragraph (and the number of insights in it) exactly when there are more
\* than one; and once handle_append_insight has added its insight, also while
\* it waits to send the notification or when sending fails, the memo read
\* through memo://insights holds the line of that insight.
Adds(i) ==
    /\ entry[i].name \in {"append_insight", "add_insight"}
    /\ ~ViaTool(i)
    /\ Has(arguments[i], "insight")

Reads(i) ==
    \/ entry[i].name = "get_memo"
    \/ entry[i].name = "read_resource" /\ arguments[i]["uri"] = memo_uri

Dashes(text) == {p \in DOMAIN text : text[p] = "- "}

\* the k-th "- " of the text is followed by the k-th insight and, unless it is
\* the last one, by the end of the line
LineOf(text, list, k) ==
    \E p \in Dashes(text) :
        /\ Cardinality({q \in Dashes(text) : q <= p}) = k
        /\ SubSeq(text, p + 1, p + Len(list[k])) = list[k]
        /\ k < Len(list) => text[p + Len(list[k]) + 1] = "\n"

Summaries(text) ==
    {p \in DOMAIN text : text[p] = "\n\nSummary:\nAnalysis has revealed "}

IsMemoOf(text, list) ==
    /\ text = <<"No data insights have been discovered yet.">> <=> list = <<>>
    /\ list # <<>> =>
          /\ Cardinality(Dashes(text)) = Len(list)
          /\ \A k \in DOMAIN list : LineOf(text, list, k)
          /\ Summaries(text) # {} <=> Len(list) > 1
          /\ \A p \in Summaries(text) :
                p + 2 = Len(text) /\ text[p + 1] = ToString(Len(list))

C27_Step ==
    /\ \/ insights' = insights
       \/ \E i \in DOMAIN pc :
             /\ Adds(i) /\ pc[i] = "called"
             /\ insights' = Append(insights, arguments[i]["insight"])
    /\ \A i \in DOMAIN pc :
          /\ (Adds(i) /\ pc[i] = "called" /\ pc'[i] # "called") =>
                insights' = Append(insights, arguments[i]["insight"])
          /\ (Reads(i) /\ pc[i] = "called" /\ pc'[i] # "called") =>
                /\ pc'[i] = "done" /\ result'[i].kind # "raised"
                /\ Len(contents'[i]) = 1
                /\ IsMemoOf(contents'[i][1], insights)

C27_MemoReflectsInsights ==
    /\ [](\A i \in DOMAIN pc :
            (Adds(i) /\ entry[i].name = "append_insight"
             /\ pc[i] \in {"await_send", "done"}) =>
                LET read == handle_read_resource(memo_uri, insights) IN
                /\ read.raises = ""
                /\ \E p \in Dashes(read.text) :
                      SubSeq(read.text, p + 1, p + Len(arguments[i]["insight"]))
                          = arguments[i]["insight"])
    /\ [][C27_Step]_vars

C27_Witness ==
    /\ calls = 3 /\ insights = << <<"b">>, <<"a">> >>
    /\ entry[1] = [via |-> "handler", name |-> "append_insight", id |-> 2]
    /\ arguments[1]["insight"] = <<"a">>
    /\ pc[1] = "done" /\ result[1] = Raised("SendError", <<>>)
    /\ entry[2].name = "read_resource" /\ arguments[2]["uri"] = memo_uri
    /\ pc[2] = "done"
    /\ contents[2] =
          << <<"Data Intelligence Memo\n\n", "Key Insights Discovered:\n\n",
               "- ", "b", "\n", "- ", "a",
               "\n\nSummary:\nAnalysis has revealed ", "2",
               " key data insights that suggest opportunities for strategic optimization and growth.">> >>

====
